---- MODULE Spec2Model ----
(***************************************************************************)
(* A model of folderize: the metadata resolver and file discovery          *)
(* (utils.js), the filing planner and mover and the orchestrator           *)
(* (folderize.js), and the normalization engine (convert-to-mp4.js).       *)
(*                                                                         *)
(* File names are sequences of dot-separated segments, <<"a", "MOV">> is   *)
(* "a.MOV" and <<"", "DS_Store">> is ".DS_Store"; an extension is a        *)
(* segment, "" when the name has none.  The file system is case sensitive. *)
(* Dates are records [y, m]; a month string is a pair of digits.           *)
(***************************************************************************)
EXTENDS Integers, Sequences, FiniteSets, TLC

\* ------------------------------------------------------------------ bounds
MaxFiles == 2        \* files present under the source root at start
MaxRuns == 3         \* runs of checkAndFolderize per process
MaxLaunches == 2     \* times the program is started
MaxFaults == 1       \* failures of calls and subprocesses, removals from outside

\* --------------------------------------------------------------- constants
IGNORED_FILES == { <<"", "DS_Store">>, <<"Thumbs", "db">> }

VIDEO_FILE_EXTENSIONS ==
  {"mov", "mp2", "mpg", "mpeg", "mp4", "m4v", "avi", "wmv", "flv", "mkv", "webm"}

ALLOWED_FILE_EXTENSIONS ==
  {"jpg", "jpeg", "gif", "heic", "raw", "cr2", "nef"} \cup VIDEO_FILE_EXTENSIONS

\* ------------------------------------------------------------------- names
NoFile == [kind |-> "none"]
NoDate == [y |-> 0, m |-> 0]

\* the media files, and the files the program is to leave alone: the two
\* ignored names and an extension that is not allowed
MediaNames == { <<"a", "mov">>, <<"a", "MP4">>, <<"a", "mp4">>, <<"a", "jpg">> }
OtherNames == { <<"", "DS_Store">>, <<"Thumbs", "db">>, <<"a", "png">> }
\* a second video of the same base name
TwinNames == { <<"a", "avi">> }
Names == MediaNames \cup OtherNames \cup TwinNames
Dirs == {"", "sub"}
SrcPaths == [dir : Dirs, name : Names]
NoPath == [dir |-> "", name |-> <<>>]

\* String.prototype.toLowerCase on a segment
ToLowerCase(s) ==
  CASE s = "MOV" -> "mov"
    [] s = "A" -> "a"
    [] s = "MP4" -> "mp4"
    [] s = "JPG" -> "jpg"
    [] s = "Thumbs" -> "thumbs"
    [] s = "DS_Store" -> "ds_store"
    [] OTHER -> s

\* path.extname: the last segment, "" for a name without a dot or a dotfile
ExtName(name) ==
  IF Len(name) < 2 \/ (Len(name) = 2 /\ name[1] = "") THEN "" ELSE name[Len(name)]

\* path.basename(name, ext): strips ext when the name ends with exactly ext
BaseName(name, ext) ==
  IF ext # "" /\ Len(name) >= 2 /\ name[Len(name)] = ext
     /\ ~(Len(name) = 2 /\ name[1] = "")
  THEN SubSeq(name, 1, Len(name) - 1)
  ELSE name

\* globby pattern `**/*.ext` with caseSensitiveMatch: false and dot: false
GlobMatch(name, ext) ==
  /\ Len(name) >= 2
  /\ name[1] # ""
  /\ ToLowerCase(name[Len(name)]) = ext

\* ------------------------------------------------------------------- dates
Dates == { [y |-> 2023, m |-> 1], [y |-> 2023, m |-> 12] }
NowDate == [y |-> 2023, m |-> 12]

Pad2_NoPad(n) == IF n < 10 THEN <<n>> ELSE <<n \div 10, n % 10>>

\* ('0' + n).slice(-2)
Pad2(n) == IF n < 10 THEN <<0, n>> ELSE <<n \div 10, n % 10>>

\* Date.prototype.getMonth is zero based
GetMonth(d) == d.m - 1
GetFullYear(d) == d.y

\* ------------------------------------------------------------------- files
\* What the EXIF reader does for a file: "throw" (the constructor throws),
\* "error" (the callback gets an error) or "data" (the callback gets
\* exifData, whose date fields are a date or NoDate).
ExifFields == {"eCreateDate", "eDateTimeOriginal", "eDateTimeDigitized",
               "iCreateDate", "iModifyDate"}
NoExif == [kind |-> "error", exif |-> [f \in ExifFields |-> NoDate]]
ExifWith(d) == [kind |-> "data",
                exif |-> [f \in ExifFields |-> IF f = "eCreateDate" THEN d ELSE NoDate]]

\* A file on disk.
\*   origin : the source path whose original bytes the content derives from
\*   kind   : "orig" original bytes, "enc" complete encoder output,
\*            "part" partially written encoder output
\*   codec  : codec of the first video stream ("na" for a non-video)
\*   age    : seconds since the last modification
\*   birth  : filesystem birth time
\*   times  : "orig" when the timestamps are those of origin, else "new"
\*   meta   : what the EXIF reader does for it
File(origin, kind, codec, age, birth, times, meta) ==
  [origin |-> origin, kind |-> kind, codec |-> codec, age |-> age,
   birth |-> birth, times |-> times, meta |-> meta]

\* fs.existsSync
ExistsSync(fs, p) == p \in DOMAIN fs /\ fs[p] # NoFile

\* --------------------------------------------------------- metadata resolver
\* a || b for values where NoDate is the falsy one
Or(a, b) == IF a # NoDate THEN a ELSE b

getExtendedFile_SilentOnError(birthtime, meta) ==
  [exifData |-> IF meta.kind = "data" THEN "exifData" ELSE "null",
   filingDateSrc |-> IF meta.kind = "data" /\ \E f \in ExifFields : meta.exif[f] # NoDate
                     THEN "exif" ELSE "file.createdAt",
   errorInfo |-> 0,
   filingCreatedDate |-> birthtime]

\* utils.js getExtendedFile.  birthtime is file.stats.birthtime, meta the
\* behaviour of ExifImage for the file.  The result is the value the promise
\* resolves with.
getExtendedFile(birthtime, meta) ==
  LET updatedFile0 == [exifData |-> "null", filingDateSrc |-> "file.createdAt",
                       errorInfo |-> 0, filingCreatedDate |-> NoDate]
      filingCreatedDate == birthtime
      x == meta.exif
      exifCreateDate == Or(x.eCreateDate, Or(x.eDateTimeOriginal,
                        Or(x.eDateTimeDigitized, Or(x.iCreateDate, x.iModifyDate))))
      updatedFile ==
        CASE meta.kind = "throw" -> [updatedFile0 EXCEPT !.errorInfo = 1]
          [] meta.kind = "error" -> [updatedFile0 EXCEPT !.errorInfo = 1]
          [] OTHER ->
               [updatedFile0 EXCEPT
                  !.filingCreatedDate = Or(exifCreateDate, birthtime),
                  !.exifData = "exifData",
                  !.filingDateSrc = IF exifCreateDate # NoDate THEN "exif" ELSE @]
  IN  \* resolve({...updatedFile, filingCreatedDate})
      [updatedFile EXCEPT !.filingCreatedDate = filingCreatedDate]

\* utils.js getFiles, the mapping of one globbed file to a file for
\* processing (extended info included)
FileForProcessing(p, f) ==
  LET e == getExtendedFile(f.birth, f.meta)
  IN  [name |-> p.name,
       srcFilePath |-> p,
       stats |-> [birthtime |-> f.birth, mtimeAge |-> f.age],
       filingCreatedDate |-> IF e.filingCreatedDate # NoDate
                             THEN e.filingCreatedDate ELSE f.birth,
       filingDateSrc |-> e.filingDateSrc,
       exifData |-> e.exifData]

\* The order in which globby lists the paths (a fixed order).
PathRank(p) ==
  (IF p.dir = "" THEN 0 ELSE 10) +
  (CASE p.name = <<"a", "mov">> -> 1
     [] p.name = <<"a", "MP4">> -> 2
     [] p.name = <<"a", "mp4">> -> 3
     [] p.name = <<"a", "jpg">> -> 4
     [] p.name = <<"a", "avi">> -> 5
     [] OTHER -> 6)

RECURSIVE SortPaths(_)
SortPaths(S) ==
  IF S = {} THEN <<>>
  ELSE LET p == CHOOSE q \in S : \A r \in S : PathRank(q) <= PathRank(r)
       IN  <<p>> \o SortPaths(S \ {p})

\* utils.js getFiles(srcPath, extensions, ignoredFiles): the files under the
\* source root matching one of the extension patterns, ignored names dropped
getFiles(fs, extensions, ignoredFiles) ==
  LET found == { p \in SrcPaths :
                   /\ ExistsSync(fs, p)
                   /\ \E ext \in extensions : GlobMatch(p.name, ext)
                   /\ p.name \notin ignoredFiles }
      paths == SortPaths(found)
  IN  [i \in 1..Len(paths) |-> FileForProcessing(paths[i], fs[paths[i]])]

isFileStable_Strict(fs, p, maxAgeSeconds) == fs[p].age > maxAgeSeconds

\* utils.js isFileStable(filePath, maxAgeSeconds = 5)
DefaultMaxAgeSeconds == 5
isFileStable(fs, p, maxAgeSeconds) == fs[p].age >= maxAgeSeconds

\* ------------------------------------------------------------ filing planner
\* folderize.js moveFiles, the map over the discovered files
DstFolder(filingDate) ==
  [year |-> GetFullYear(filingDate), month |-> Pad2(GetMonth(filingDate) + 1)]

FileForFiling(file) ==
  LET filingDate == file.filingCreatedDate
      dstFolder == DstFolder(filingDate)
  IN  [name |-> file.name,
       srcFilePath |-> file.srcFilePath,
       dstPath |-> dstFolder,
       dstFilePath |-> [folder |-> dstFolder, name |-> file.name],
       stats |-> file.stats]

DstFolders == { DstFolder(d) : d \in Dates }
DstPaths == [folder : DstFolders, name : Names]

\* ------------------------------------------------------------------- state
VARIABLES
  src,        \* the source tree: SrcPaths -> a file or NoFile
  dst,        \* the archive: DstPaths -> a file or NoFile
  dstDirs,    \* the archive folders that exist
  cfg,        \* continuous, convertVideos, deleteOriginals; ffmpeg installed
  proc,       \* "up" or "exited"
  launch,     \* how many times the program was started
  main,       \* position of the main function
  checkCount, \* folderize.js checkCount
  runs,       \* the invocations of checkAndFolderize of this process
  cpu,        \* the run whose synchronous code is executing, 0 when none
  events,     \* what was reported, per launch, run and file
  faults,     \* how many calls and subprocesses have failed so far
  rin,        \* resolver check: the input given to getExtendedFile
  rout        \* resolver check: its result and the plan made from it

vars == <<src, dst, dstDirs, cfg, proc, launch, main, checkCount, runs, cpu,
          events, faults, rin, rout>>

RunIds == 1..MaxRuns
NoInput == [birthtime |-> NoDate, meta |-> NoExif]
NoResult == [filingDateSrc |-> "none"]
NoJob == [encoder |-> "none"]
IdleRun == [pc |-> "idle", files |-> <<>>, i |-> 0, job |-> NoJob, filing |-> "none"]

Event(r, p, what) == [launch |-> launch, run |-> r, path |-> p, what |-> what]

SetRun(r, rec) == runs' = [runs EXCEPT ![r] = rec]

\* A call that can succeed (can) either succeeds (ok) or fails, which uses
\* up one of the failures of the behaviour; a call that cannot succeed fails.
Outcome(ok, can) ==
  /\ ok => can
  /\ (~ok /\ can) => faults < MaxFaults
  /\ faults' = IF ~ok /\ can THEN faults + 1 ELSE faults

\* ------------------------------------------------------------------- mover
\* moveFiles: `await getFiles(...)` returns and the files are planned
MvDiscover(r) ==
  /\ proc = "up" /\ cpu = 0 /\ runs[r].pc = "mv_discover"
  /\ LET files == getFiles(src, ALLOWED_FILE_EXTENSIONS, IGNORED_FILES)
         filesForFiling == [k \in 1..Len(files) |-> FileForFiling(files[k])]
     IN  SetRun(r, [runs[r] EXCEPT !.pc = "mv_mkdir", !.files = filesForFiling,
                                   !.i = 1, !.filing = "invoked"])
  /\ cpu' = r
  /\ UNCHANGED <<src, dst, dstDirs, cfg, proc, launch, main, checkCount, events, faults, rin, rout>>

\* forEach is over: moveFiles and checkAndFolderize return
MvReturn(r) ==
  /\ cpu = r /\ runs[r].pc = "mv_mkdir" /\ runs[r].i > Len(runs[r].files)
  /\ SetRun(r, [IdleRun EXCEPT !.pc = "done", !.filing = "invoked"])
  /\ cpu' = 0
  /\ UNCHANGED <<src, dst, dstDirs, cfg, proc, launch, main, checkCount, events, faults, rin, rout>>

\* `if(!fs.existsSync(file.dstPath))` and mkdirSync, which may throw
MvMkdir(r) ==
  /\ cpu = r /\ runs[r].pc = "mv_mkdir" /\ runs[r].i <= Len(runs[r].files)
  /\ LET file == runs[r].files[runs[r].i]
     IN  IF file.dstPath \in dstDirs
         THEN UNCHANGED <<dstDirs, events, faults>>
         ELSE \E ok \in {TRUE, FALSE} :
                /\ Outcome(ok, TRUE)
                /\ IF ok
                   THEN /\ dstDirs' = dstDirs \cup {file.dstPath}
                        /\ UNCHANGED events
                   ELSE /\ events' = events \cup
                             {Event(r, file.srcFilePath, "error creating folder")}
                        /\ UNCHANGED dstDirs
  /\ SetRun(r, [runs[r] EXCEPT !.pc = "mv_check"])
  /\ UNCHANGED <<src, dst, cfg, proc, launch, main, checkCount, cpu, rin, rout>>

\* MoveRejection without the check of the destination
MoveRejection_NoExistsCheck(file, archive) ==
  IF file.name \in IGNORED_FILES THEN "file is in the ignored files list"
  ELSE IF ToLowerCase(ExtName(file.name)) \notin ALLOWED_FILE_EXTENSIONS
       THEN "file extension is ignored"
  ELSE ""

\* the reason for which the try block throws before the copy, "" for none
MoveRejection(file, archive) ==
  IF file.name \in IGNORED_FILES THEN "file is in the ignored files list"
  ELSE IF ToLowerCase(ExtName(file.name)) \notin ALLOWED_FILE_EXTENSIONS
       THEN "file extension is ignored"
  ELSE IF ExistsSync(archive, file.dstFilePath) THEN "destination already exists"
  ELSE ""

\* the three checks at the head of the try block
MvCheck(r) ==
  /\ cpu = r /\ runs[r].pc = "mv_check"
  /\ LET file == runs[r].files[runs[r].i]
         why == MoveRejection(file, dst)
     IN  IF why # ""
         THEN /\ events' = events \cup {Event(r, file.srcFilePath, why)}
              /\ SetRun(r, [runs[r] EXCEPT !.pc = "mv_mkdir", !.i = @ + 1])
         ELSE /\ SetRun(r, [runs[r] EXCEPT !.pc = "mv_copy"])
              /\ UNCHANGED events
  /\ UNCHANGED <<src, dst, dstDirs, cfg, proc, launch, main, checkCount, cpu, faults, rin, rout>>

\* fs.copyFileSync(file.srcFilePath, file.dstFilePath); it throws when the
\* source or the destination folder is missing, and may throw otherwise
MvCopy(r) ==
  /\ cpu = r /\ runs[r].pc = "mv_copy"
  /\ LET file == runs[r].files[runs[r].i]
         can == ExistsSync(src, file.srcFilePath) /\ file.dstPath \in dstDirs
     IN  \E ok \in {TRUE, FALSE} :
           /\ Outcome(ok, can)
           /\ IF ok
              THEN /\ dst' = [dst EXCEPT ![file.dstFilePath] =
                                [src[file.srcFilePath] EXCEPT !.times = "new",
                                                              !.birth = NowDate,
                                                              !.age = 0]]
                   /\ SetRun(r, [runs[r] EXCEPT !.pc = "mv_utimes"])
                   /\ UNCHANGED events
              ELSE /\ events' = events \cup {Event(r, file.srcFilePath, "error moving: copy")}
                   /\ SetRun(r, [runs[r] EXCEPT !.pc = "mv_mkdir", !.i = @ + 1])
                   /\ UNCHANGED dst
  /\ UNCHANGED <<src, dstDirs, cfg, proc, launch, main, checkCount, cpu, rin, rout>>

\* MvUtimes with the failure of utimesSync caught on the spot, so that the
\* unlink follows
MvUtimes_FailureSwallowed(r) ==
  /\ cpu = r /\ runs[r].pc = "mv_utimes"
  /\ LET file == runs[r].files[runs[r].i]
     IN  \E ok \in {TRUE, FALSE} :
           /\ Outcome(ok, TRUE)
           /\ IF ok
              THEN /\ dst' = [dst EXCEPT ![file.dstFilePath] =
                                [@ EXCEPT !.times = "orig",
                                          !.birth = file.stats.birthtime,
                                          !.age = file.stats.mtimeAge]]
                   /\ UNCHANGED events
              ELSE /\ events' = events \cup
                        {Event(r, file.srcFilePath, "error moving: utimes")}
                   /\ UNCHANGED dst
           /\ SetRun(r, [runs[r] EXCEPT !.pc = "mv_unlink"])
  /\ UNCHANGED <<src, dstDirs, cfg, proc, launch, main, checkCount, cpu, rin, rout>>

\* utimesSync(file.dstFilePath, {btime, mtime, atime} of file.stats)
MvUtimes(r) ==
  /\ cpu = r /\ runs[r].pc = "mv_utimes"
  /\ LET file == runs[r].files[runs[r].i]
     IN  \E ok \in {TRUE, FALSE} :
           /\ Outcome(ok, TRUE)
           /\ IF ok
              THEN /\ dst' = [dst EXCEPT ![file.dstFilePath] =
                                [@ EXCEPT !.times = "orig",
                                          !.birth = file.stats.birthtime,
                                          !.age = file.stats.mtimeAge]]
                   /\ SetRun(r, [runs[r] EXCEPT !.pc = "mv_unlink"])
                   /\ UNCHANGED events
              ELSE /\ events' = events \cup
                        {Event(r, file.srcFilePath, "error moving: utimes")}
                   /\ SetRun(r, [runs[r] EXCEPT !.pc = "mv_mkdir", !.i = @ + 1])
                   /\ UNCHANGED dst
  /\ UNCHANGED <<src, dstDirs, cfg, proc, launch, main, checkCount, cpu, rin, rout>>

\* fs.unlinkSync(file.srcFilePath) and the "Moved" log line
MvUnlink(r) ==
  /\ cpu = r /\ runs[r].pc = "mv_unlink"
  /\ LET file == runs[r].files[runs[r].i]
     IN  \E ok \in {TRUE, FALSE} :
           /\ Outcome(ok, ExistsSync(src, file.srcFilePath))
           /\ IF ok
              THEN /\ src' = [src EXCEPT ![file.srcFilePath] = NoFile]
                   /\ events' = events \cup {Event(r, file.srcFilePath, "moved")}
              ELSE /\ events' = events \cup {Event(r, file.srcFilePath, "error moving: unlink")}
                   /\ UNCHANGED src
  /\ SetRun(r, [runs[r] EXCEPT !.pc = "mv_mkdir", !.i = @ + 1])
  /\ UNCHANGED <<dst, dstDirs, cfg, proc, launch, main, checkCount, cpu, rin, rout>>

\* --------------------------------------------------- normalization engine
TargetCodec == "h264"
NoCodec == "null"

\* convertVideoFiles: the output path of an input, in the directory that
\* mirrors the input's directory under inputDir
OutPath_Flat(inPath) ==
  LET name == inPath.name
      base == BaseName(name, ExtName(name))
  IN  [dir |-> "", name |-> Append(base, "mp4")]

OutPath(inPath) ==
  LET name == inPath.name
      base == BaseName(name, ExtName(name))
  IN  [dir |-> inPath.dir, name |-> Append(base, "mp4")]

\* getVideoCodec: what ffprobe prints, or null when it fails
ProbedCodecs(f) == {f.codec, NoCodec}

\* the loop is over: convertVideoFiles returns and checkAndCovertVideoFiles
\* awaits the fresh list
CvReturn(r) ==
  /\ cpu = r /\ runs[r].pc = "cv_loop" /\ runs[r].i > Len(runs[r].files)
  /\ SetRun(r, [IdleRun EXCEPT !.pc = "vf_discover"])
  /\ cpu' = 0
  /\ UNCHANGED <<src, dst, dstDirs, cfg, proc, launch, main, checkCount, events, faults, rin, rout>>

\* fs.statSync(inPath) throws for a file that is gone: the exception leaves
\* convertVideoFiles, checkAndCovertVideoFiles returns false
CvStatThrows(r) ==
  /\ cpu = r /\ runs[r].pc = "cv_loop" /\ runs[r].i <= Len(runs[r].files)
  /\ LET inPath == runs[r].files[runs[r].i].srcFilePath
     IN  /\ ~ExistsSync(src, inPath)
         /\ events' = events \cup {Event(r, inPath, "video conversion failed")}
  /\ SetRun(r, [IdleRun EXCEPT !.pc = "done", !.filing = "skipped"])
  /\ cpu' = 0
  /\ UNCHANGED <<src, dst, dstDirs, cfg, proc, launch, main, checkCount, faults, rin, rout>>

\* `if (fs.existsSync(outPath))`: skipping, already converted
CvSkip(r) ==
  /\ cpu = r /\ runs[r].pc = "cv_loop" /\ runs[r].i <= Len(runs[r].files)
  /\ LET inPath == runs[r].files[runs[r].i].srcFilePath
     IN  /\ ExistsSync(src, inPath)
         /\ ToLowerCase(ExtName(inPath.name)) \in VIDEO_FILE_EXTENSIONS
         /\ ExistsSync(src, OutPath(inPath))
         /\ events' = events \cup {Event(r, inPath, "skipping - already converted")}
  /\ SetRun(r, [runs[r] EXCEPT !.i = @ + 1])
  /\ UNCHANGED <<src, dst, dstDirs, cfg, proc, launch, main, checkCount, cpu, faults, rin, rout>>

\* an .mp4 whose probed codec is h264: fs.renameSync(inPath, outPath)
CvRename(r) ==
  /\ cpu = r /\ runs[r].pc = "cv_loop" /\ runs[r].i <= Len(runs[r].files)
  /\ LET inPath == runs[r].files[runs[r].i].srcFilePath
         outPath == OutPath(inPath)
     IN  /\ ExistsSync(src, inPath)
         /\ ~ExistsSync(src, outPath)
         /\ ToLowerCase(ExtName(inPath.name)) = "mp4"
         /\ src[inPath].codec = TargetCodec   \* getVideoCodec(inPath) === 'h264'
         /\ \E ok \in {TRUE, FALSE} :
              /\ Outcome(ok, TRUE)
              /\ IF ok
                 THEN /\ src' = [src EXCEPT ![outPath] = src[inPath], ![inPath] = NoFile]
                      /\ events' = events \cup {Event(r, inPath, "already h264 - moved")}
                 ELSE /\ events' = events \cup {Event(r, inPath, "failed to move")}
                      /\ UNCHANGED src
  /\ SetRun(r, [runs[r] EXCEPT !.i = @ + 1])
  /\ UNCHANGED <<dst, dstDirs, cfg, proc, launch, main, checkCount, cpu, rin, rout>>

\* CvSpawn without the test of the probed codec: an .mp4 is encoded
\* whatever ffprobe printed
CvSpawn_NoCodecCheck(r) ==
  /\ cpu = r /\ runs[r].pc = "cv_loop" /\ runs[r].i <= Len(runs[r].files)
  /\ LET inPath == runs[r].files[runs[r].i].srcFilePath
         outPath == OutPath(inPath)
         ext == ToLowerCase(ExtName(inPath.name))
     IN  /\ ExistsSync(src, inPath)
         /\ ext \in VIDEO_FILE_EXTENSIONS
         /\ ~ExistsSync(src, outPath)
         /\ \E codec \in (IF ext = "mp4" THEN ProbedCodecs(src[inPath]) ELSE {"unprobed"}) :
              /\ Outcome(codec # NoCodec, TRUE)
              /\ SetRun(r, [runs[r] EXCEPT !.pc = "cv_encoding",
                     !.job = [inputPath |-> inPath, outputPath |-> outPath,
                              detectedCodec |-> codec,
                              originalStats |-> [birthtime |-> src[inPath].birth,
                                                 mtimeAge |-> src[inPath].age],
                              origin |-> src[inPath].origin,
                              encoder |-> "running"]])
         /\ events' = events \cup {Event(r, inPath, "converting")}
  /\ cpu' = 0
  /\ UNCHANGED <<src, dst, dstDirs, cfg, proc, launch, main, checkCount, rin, rout>>

\* CvSpawn without the check that the output exists already
CvSpawn_NoExistsCheck(r) ==
  /\ cpu = r /\ runs[r].pc = "cv_loop" /\ runs[r].i <= Len(runs[r].files)
  /\ LET inPath == runs[r].files[runs[r].i].srcFilePath
         outPath == OutPath(inPath)
         ext == ToLowerCase(ExtName(inPath.name))
     IN  /\ ExistsSync(src, inPath)
         /\ ext \in VIDEO_FILE_EXTENSIONS
         /\ \E codec \in (IF ext = "mp4" THEN ProbedCodecs(src[inPath]) ELSE {"unprobed"}) :
              /\ codec # TargetCodec
              /\ Outcome(codec # NoCodec, TRUE)
              /\ SetRun(r, [runs[r] EXCEPT !.pc = "cv_encoding",
                     !.job = [inputPath |-> inPath, outputPath |-> outPath,
                              detectedCodec |-> codec,
                              originalStats |-> [birthtime |-> src[inPath].birth,
                                                 mtimeAge |-> src[inPath].age],
                              origin |-> src[inPath].origin,
                              encoder |-> "running"]])
         /\ events' = events \cup {Event(r, inPath, "converting")}
  /\ cpu' = 0
  /\ UNCHANGED <<src, dst, dstDirs, cfg, proc, launch, main, checkCount, rin, rout>>

\* everything else: convertToH264Mp4 is called and spawns the encoder; the
\* run waits for the promise
CvSpawn(r) ==
  /\ cpu = r /\ runs[r].pc = "cv_loop" /\ runs[r].i <= Len(runs[r].files)
  /\ LET inPath == runs[r].files[runs[r].i].srcFilePath
         outPath == OutPath(inPath)
         ext == ToLowerCase(ExtName(inPath.name))
     IN  /\ ExistsSync(src, inPath)
         /\ ext \in VIDEO_FILE_EXTENSIONS
         /\ ~ExistsSync(src, outPath)
         /\ \E codec \in (IF ext = "mp4" THEN ProbedCodecs(src[inPath]) ELSE {"unprobed"}) :
              /\ codec # TargetCodec
              /\ Outcome(codec # NoCodec, TRUE)
              /\ SetRun(r, [runs[r] EXCEPT !.pc = "cv_encoding",
                     !.job = [inputPath |-> inPath, outputPath |-> outPath,
                              detectedCodec |-> codec,
                              originalStats |-> [birthtime |-> src[inPath].birth,
                                                 mtimeAge |-> src[inPath].age],
                              origin |-> src[inPath].origin,
                              encoder |-> "running"]])
         /\ events' = events \cup {Event(r, inPath, "converting")}
  /\ cpu' = 0
  /\ UNCHANGED <<src, dst, dstDirs, cfg, proc, launch, main, checkCount, rin, rout>>

\* the encoder subprocess (ffmpeg -y ... outputPath) starts writing its output
EncWrite(r) ==
  /\ proc = "up" /\ cpu = 0
  /\ runs[r].pc = "cv_encoding" /\ runs[r].job.encoder = "running"
  /\ LET job == runs[r].job
     IN  /\ ExistsSync(src, job.inputPath)
         /\ ~(ExistsSync(src, job.outputPath) /\ src[job.outputPath].kind = "part")
         /\ src' = [src EXCEPT ![job.outputPath] =
                      File(job.origin, "part", TargetCodec, 0, NowDate, "new", NoExif)]
  /\ UNCHANGED <<dst, dstDirs, cfg, proc, launch, main, checkCount, runs, cpu, events, faults, rin, rout>>

\* the encoder subprocess exits with code 0: the output is complete
EncExitOk(r) ==
  /\ proc = "up" /\ cpu = 0
  /\ runs[r].pc = "cv_encoding" /\ runs[r].job.encoder = "running"
  /\ LET job == runs[r].job
     IN  /\ ExistsSync(src, job.inputPath)
         /\ src' = [src EXCEPT ![job.outputPath] =
                      File(job.origin, "enc", TargetCodec, 0, NowDate, "new", NoExif)]
  /\ SetRun(r, [runs[r] EXCEPT !.job.encoder = "exit0"])
  /\ UNCHANGED <<dst, dstDirs, cfg, proc, launch, main, checkCount, cpu, events, faults, rin, rout>>

\* the encoder subprocess exits with a non-zero code, leaving what it wrote
EncExitFail(r) ==
  /\ proc = "up" /\ cpu = 0
  /\ runs[r].pc = "cv_encoding" /\ runs[r].job.encoder = "running"
  /\ Outcome(FALSE, ExistsSync(src, runs[r].job.inputPath))
  /\ SetRun(r, [runs[r] EXCEPT !.job.encoder = "exitN"])
  /\ UNCHANGED <<src, dst, dstDirs, cfg, proc, launch, main, checkCount, cpu, events, rin, rout>>

\* the 'close' handler of convertToH264Mp4 starts: a non-zero code rejects,
\* code 0 goes on to restore the timestamps
CvClose(r) ==
  /\ proc = "up" /\ cpu = 0
  /\ runs[r].pc = "cv_encoding" /\ runs[r].job.encoder \in {"exit0", "exitN"}
  /\ IF runs[r].job.encoder = "exitN"
     THEN /\ SetRun(r, [runs[r] EXCEPT !.pc = "cv_catch"])
          /\ events' = events \cup {Event(r, runs[r].job.inputPath, "ffmpeg failed")}
     ELSE /\ SetRun(r, [runs[r] EXCEPT !.pc = "cv_utimes"])
          /\ events' = events \cup {Event(r, runs[r].job.inputPath, "conversion complete")}
  /\ cpu' = r
  /\ UNCHANGED <<src, dst, dstDirs, cfg, proc, launch, main, checkCount, faults, rin, rout>>

CvUtimes_FailureRejects(r) ==
  /\ cpu = r /\ runs[r].pc = "cv_utimes"
  /\ LET job == runs[r].job
     IN  \E ok \in {TRUE, FALSE} :
           /\ Outcome(ok, ExistsSync(src, job.outputPath))
           /\ IF ok
              THEN /\ src' = [src EXCEPT ![job.outputPath] =
                                [@ EXCEPT !.times = "orig",
                                          !.birth = job.originalStats.birthtime,
                                          !.age = job.originalStats.mtimeAge]]
                   /\ events' = events \cup {Event(r, job.inputPath, "restored timestamps")}
                   /\ IF cfg.deleteOriginals
                      THEN SetRun(r, [runs[r] EXCEPT !.pc = "cv_delete"])
                      ELSE SetRun(r, [runs[r] EXCEPT !.pc = "cv_loop", !.i = @ + 1,
                                                     !.job = NoJob])
              ELSE /\ events' = events \cup
                        {Event(r, job.inputPath, "warning: could not restore timestamps")}
                   /\ SetRun(r, [runs[r] EXCEPT !.pc = "cv_catch"])
                   /\ UNCHANGED src
  /\ UNCHANGED <<dst, dstDirs, cfg, proc, launch, main, checkCount, cpu, rin, rout>>

CvUtimes_AlwaysDelete(r) ==
  /\ cpu = r /\ runs[r].pc = "cv_utimes"
  /\ LET job == runs[r].job
     IN  \E ok \in {TRUE, FALSE} :
           /\ Outcome(ok, ExistsSync(src, job.outputPath))
           /\ IF ok
              THEN /\ src' = [src EXCEPT ![job.outputPath] =
                                [@ EXCEPT !.times = "orig",
                                          !.birth = job.originalStats.birthtime,
                                          !.age = job.originalStats.mtimeAge]]
                   /\ events' = events \cup {Event(r, job.inputPath, "restored timestamps")}
              ELSE /\ events' = events \cup
                        {Event(r, job.inputPath, "warning: could not restore timestamps")}
                   /\ UNCHANGED src
  /\ SetRun(r, [runs[r] EXCEPT !.pc = "cv_delete"])
  /\ UNCHANGED <<dst, dstDirs, cfg, proc, launch, main, checkCount, cpu, rin, rout>>

\* utimesSync(outputPath, originalStats) in its own try/catch; then, without
\* deleteOriginal, resolve(true) and the loop goes on
CvUtimes(r) ==
  /\ cpu = r /\ runs[r].pc = "cv_utimes"
  /\ LET job == runs[r].job
     IN  \E ok \in {TRUE, FALSE} :
           /\ Outcome(ok, ExistsSync(src, job.outputPath))
           /\ IF ok
              THEN /\ src' = [src EXCEPT ![job.outputPath] =
                                [@ EXCEPT !.times = "orig",
                                          !.birth = job.originalStats.birthtime,
                                          !.age = job.originalStats.mtimeAge]]
                   /\ events' = events \cup {Event(r, job.inputPath, "restored timestamps")}
              ELSE /\ events' = events \cup
                        {Event(r, job.inputPath, "warning: could not restore timestamps")}
                   /\ UNCHANGED src
  /\ IF cfg.deleteOriginals
     THEN SetRun(r, [runs[r] EXCEPT !.pc = "cv_delete"])
     ELSE SetRun(r, [runs[r] EXCEPT !.pc = "cv_loop", !.i = @ + 1, !.job = NoJob])
  /\ UNCHANGED <<dst, dstDirs, cfg, proc, launch, main, checkCount, cpu, rin, rout>>

\* `if (deleteOriginal)`: fs.unlinkSync(inputPath); when it throws the
\* promise is rejected (the resolve(true) that follows has no effect)
CvDelete(r) ==
  /\ cpu = r /\ runs[r].pc = "cv_delete"
  /\ LET job == runs[r].job
     IN  \E ok \in {TRUE, FALSE} :
           /\ Outcome(ok, ExistsSync(src, job.inputPath))
           /\ IF ok
              THEN /\ src' = [src EXCEPT ![job.inputPath] = NoFile]
                   /\ events' = events \cup {Event(r, job.inputPath, "deleted original")}
                   /\ SetRun(r, [runs[r] EXCEPT !.pc = "cv_loop", !.i = @ + 1, !.job = NoJob])
              ELSE /\ events' = events \cup
                        {Event(r, job.inputPath, "failed to delete original")}
                   /\ SetRun(r, [runs[r] EXCEPT !.pc = "cv_catch"])
                   /\ UNCHANGED src
  /\ UNCHANGED <<dst, dstDirs, cfg, proc, launch, main, checkCount, cpu, rin, rout>>

\* CvCatch whose clean-up unlinks the input of the job
CvCatch_UnlinksInput(r) ==
  /\ cpu = r /\ runs[r].pc = "cv_catch"
  /\ LET job == runs[r].job
         err == Event(r, job.inputPath, "error converting")
     IN  IF ExistsSync(src, job.inputPath)
         THEN \E ok \in {TRUE, FALSE} :
                /\ UNCHANGED faults
                /\ IF ok
                   THEN /\ src' = [src EXCEPT ![job.inputPath] = NoFile]
                        /\ events' = events \cup
                             {err, Event(r, job.inputPath, "removed failed conversion file")}
                   ELSE /\ events' = events \cup
                             {err, Event(r, job.inputPath, "warning: could not remove failed file")}
                        /\ UNCHANGED src
         ELSE /\ events' = events \cup {err}
              /\ UNCHANGED <<src, faults>>
  /\ SetRun(r, [runs[r] EXCEPT !.pc = "cv_loop", !.i = @ + 1, !.job = NoJob])
  /\ UNCHANGED <<dst, dstDirs, cfg, proc, launch, main, checkCount, cpu, rin, rout>>

\* CvCatch that only logs the error and leaves the output where it is
CvCatch_LogOnly(r) ==
  /\ cpu = r /\ runs[r].pc = "cv_catch"
  /\ events' = events \cup {Event(r, runs[r].job.inputPath, "error converting")}
  /\ SetRun(r, [runs[r] EXCEPT !.pc = "cv_loop", !.i = @ + 1, !.job = NoJob])
  /\ UNCHANGED <<src, dst, dstDirs, cfg, proc, launch, main, checkCount, cpu, faults, rin, rout>>

\* the catch block of convertVideoFiles: the output file is removed when it
\* exists; stopOnError is not passed by folderize.js, the loop goes on.  The
\* unlink of the clean-up may throw whatever has failed before (it is not
\* counted with the failures).
CvCatch(r) ==
  /\ cpu = r /\ runs[r].pc = "cv_catch"
  /\ LET job == runs[r].job
         err == Event(r, job.inputPath, "error converting")
     IN  IF ExistsSync(src, job.outputPath)
         THEN \E ok \in {TRUE, FALSE} :
                /\ UNCHANGED faults
                /\ IF ok
                   THEN /\ src' = [src EXCEPT ![job.outputPath] = NoFile]
                        /\ events' = events \cup
                             {err, Event(r, job.inputPath, "removed failed conversion file")}
                   ELSE /\ events' = events \cup
                             {err, Event(r, job.inputPath, "warning: could not remove failed file")}
                        /\ UNCHANGED src
         ELSE /\ events' = events \cup {err}
              /\ UNCHANGED <<src, faults>>
  /\ SetRun(r, [runs[r] EXCEPT !.pc = "cv_loop", !.i = @ + 1, !.job = NoJob])
  /\ UNCHANGED <<dst, dstDirs, cfg, proc, launch, main, checkCount, cpu, rin, rout>>

\* ------------------------------------------------------------ orchestrator
\* folderize.js verifyAllVideosConverted: a non-.mp4 file counts as
\* converted when `${basename(path, ext)}.mp4` exists beside it, ext being
\* the lower-cased extension
Mp4PathOf(p) ==
  LET ext == ToLowerCase(ExtName(p.name))
      baseName == BaseName(p.name, ext)
  IN  [dir |-> p.dir, name |-> Append(baseName, "mp4")]

Unconverted(fs, videoFiles) ==
  { k \in 1..Len(videoFiles) :
      LET p == videoFiles[k].srcFilePath
      IN  /\ ToLowerCase(ExtName(p.name)) # "mp4"
          /\ ~ExistsSync(fs, Mp4PathOf(p)) }

\* verifyAllVideosConverted answering true whatever the list holds
verifyAllVideosConverted_AlwaysTrue(fs, videoFiles) == TRUE

verifyAllVideosConverted(fs, videoFiles) == Unconverted(fs, videoFiles) = {}

\* checkAndFolderize up to the first await of checkAndCovertVideoFiles (or,
\* with conversion disabled, of moveFiles); a missing ffmpeg or ffprobe makes
\* checkFfmpegInstalled throw and the filing is skipped
RunBegin(r) ==
  /\ cpu = r /\ runs[r].pc = "begin"
  /\ checkCount' = checkCount + 1
  /\ IF ~cfg.convertVideos
     THEN /\ SetRun(r, [runs[r] EXCEPT !.pc = "mv_discover"])
          /\ UNCHANGED events
     ELSE IF ~cfg.ffmpeg
     THEN /\ SetRun(r, [IdleRun EXCEPT !.pc = "done", !.filing = "skipped"])
          /\ events' = events \cup {Event(r, NoPath, "video conversion failed")}
     ELSE /\ SetRun(r, [runs[r] EXCEPT !.pc = "cv_discover"])
          /\ UNCHANGED events
  /\ cpu' = 0
  /\ UNCHANGED <<src, dst, dstDirs, cfg, proc, launch, main, faults, rin, rout>>

\* `await getFiles(srcPath, VIDEO_FILE_EXTENSIONS, IGNORED_FILES)` returns
\* and convertVideoFiles starts
CvDiscover(r) ==
  /\ proc = "up" /\ cpu = 0 /\ runs[r].pc = "cv_discover"
  /\ SetRun(r, [runs[r] EXCEPT !.pc = "cv_loop", !.i = 1,
                  !.files = getFiles(src, VIDEO_FILE_EXTENSIONS, IGNORED_FILES)])
  /\ cpu' = r
  /\ UNCHANGED <<src, dst, dstDirs, cfg, proc, launch, main, checkCount, events, faults, rin, rout>>

\* the fresh list arrives: unstable files or unconverted videos make
\* checkAndCovertVideoFiles return false, and checkAndFolderize returns
\* without calling moveFiles
VfDiscover(r) ==
  /\ proc = "up" /\ cpu = 0 /\ runs[r].pc = "vf_discover"
  /\ LET remainingVideoFiles == getFiles(src, VIDEO_FILE_EXTENSIONS, IGNORED_FILES)
         unstableFiles == { k \in 1..Len(remainingVideoFiles) :
              ~isFileStable(src, remainingVideoFiles[k].srcFilePath, DefaultMaxAgeSeconds) }
     IN  IF unstableFiles # {}
         THEN /\ SetRun(r, [IdleRun EXCEPT !.pc = "done", !.filing = "skipped"])
              /\ events' = events \cup
                   { Event(r, remainingVideoFiles[k].srcFilePath, "still being modified")
                       : k \in unstableFiles }
         ELSE IF ~verifyAllVideosConverted(src, remainingVideoFiles)
         THEN /\ SetRun(r, [IdleRun EXCEPT !.pc = "done", !.filing = "skipped"])
              /\ events' = events \cup
                   { Event(r, remainingVideoFiles[k].srcFilePath, "unconverted")
                       : k \in Unconverted(src, remainingVideoFiles) }
         ELSE /\ SetRun(r, [IdleRun EXCEPT !.pc = "mv_discover"])
              /\ UNCHANGED events
  /\ UNCHANGED <<src, dst, dstDirs, cfg, proc, launch, main, checkCount, cpu, faults, rin, rout>>

\* main: the first run is over; continuous mode arms setInterval, a single
\* run is followed by the clean-up and the end of the process
MainAfterFirstRun ==
  /\ proc = "up" /\ cpu = 0 /\ main = "first" /\ runs[1].pc = "done"
  /\ IF cfg.continuous
     THEN main' = "interval" /\ UNCHANGED proc
     ELSE main' = "end" /\ proc' = "exited"
  /\ events' = IF cfg.continuous THEN events
               ELSE events \cup {Event(1, NoPath, "checking for empty folders")}
  /\ UNCHANGED <<src, dst, dstDirs, cfg, launch, checkCount, runs, cpu, faults, rin, rout>>

\* the interval timer fires: the callback calls checkAndFolderize
TimerFires(r) ==
  /\ proc = "up" /\ cpu = 0 /\ main = "interval"
  /\ runs[r].pc = "idle" /\ \A q \in RunIds : q < r => runs[q].pc # "idle"
  /\ SetRun(r, [runs[r] EXCEPT !.pc = "begin"])
  /\ cpu' = r
  /\ UNCHANGED <<src, dst, dstDirs, cfg, proc, launch, main, checkCount, events, faults, rin, rout>>

\* SIGINT from the terminal: the handler calls process.exit(0); the signal
\* also ends the encoder subprocesses, whose output files stay as they are
Sigint ==
  /\ proc = "up" /\ cpu = 0
  /\ proc' = "exited"
  /\ main' = "killed"
  /\ UNCHANGED <<src, dst, dstDirs, cfg, launch, checkCount, runs, cpu, events, faults, rin, rout>>

\* the operator starts the program again on the same folders
Restart ==
  /\ proc = "exited" /\ launch < MaxLaunches
  /\ proc' = "up"
  /\ launch' = launch + 1
  /\ main' = "first"
  /\ checkCount' = 0
  /\ runs' = [r \in RunIds |-> IF r = 1 THEN [IdleRun EXCEPT !.pc = "begin"] ELSE IdleRun]
  /\ cpu' = 1
  /\ UNCHANGED <<src, dst, dstDirs, cfg, events, faults, rin, rout>>

\* time passes: the files that nothing writes to become stable
BeingWritten(p) ==
  /\ proc = "up"
  /\ \E r \in RunIds : /\ runs[r].pc = "cv_encoding"
                        /\ runs[r].job.encoder = "running"
                        /\ runs[r].job.outputPath = p

Ageing(p) ==
  ExistsSync(src, p) /\ src[p].age < DefaultMaxAgeSeconds /\ ~BeingWritten(p)

TimePasses ==
  /\ cpu = 0
  /\ \E p \in SrcPaths : Ageing(p)
  /\ src' = [p \in SrcPaths |->
               IF Ageing(p) THEN [src[p] EXCEPT !.age = 2 * DefaultMaxAgeSeconds]
               ELSE src[p]]
  /\ UNCHANGED <<dst, dstDirs, cfg, proc, launch, main, checkCount, runs, cpu, events, faults, rin, rout>>

\* somebody else removes an original file from the source tree while the
\* program is waiting (counted with the failures)
RemovedOutside(p) ==
  /\ proc = "up" /\ cpu = 0
  /\ \E r \in RunIds : runs[r].pc \in {"cv_encoding", "vf_discover", "mv_discover"}
  /\ ExistsSync(src, p) /\ src[p].kind = "orig"
  /\ Outcome(FALSE, TRUE)
  /\ src' = [src EXCEPT ![p] = NoFile]
  /\ UNCHANGED <<dst, dstDirs, cfg, proc, launch, main, checkCount, runs, cpu, events, rin, rout>>

\* ------------------------------------------------------------ initial states
Cfgs ==
  { c \in [continuous : BOOLEAN, convertVideos : BOOLEAN,
           deleteOriginals : BOOLEAN, ffmpeg : BOOLEAN] :
      ~c.convertVideos => (c.ffmpeg /\ ~c.deleteOriginals) }

\* the codecs a file of this name may hold
CodecsOf(name) ==
  CASE ToLowerCase(ExtName(name)) = "mp4" -> {"h264", "hevc"}
    [] ToLowerCase(ExtName(name)) \in {"mov", "avi"} -> {"hevc"}
    [] OTHER -> {"na"}

\* the original files a path may hold, for the given ages, birth times and
\* EXIF behaviours
Originals(p, ages, births, metas) ==
  { File(p, "orig", c, a, b, "orig", m) :
      c \in CodecsOf(p.name), a \in ages, b \in births, m \in metas }

\* the source trees of at most n files under the given directories
SourceTrees(n, dirs, ages, births, metas) ==
  UNION { { [p \in SrcPaths |-> IF p \in S THEN f[p] ELSE NoFile] :
              f \in { g \in [S -> UNION { Originals(p, ages, births, metas) : p \in S }] :
                        \A p \in S : g[p] \in Originals(p, ages, births, metas) } }
          : S \in { T \in SUBSET { q \in SrcPaths : q.dir \in dirs /\ q.name \in MediaNames } :
                     Cardinality(T) <= n } }

EmptyArchive == [q \in DstPaths |-> NoFile]

\* the archives holding at most n files, filed earlier
Archives(n) ==
  { [q \in DstPaths |-> IF q \in S
       THEN File([dir |-> "old", name |-> q.name], "orig", "na", 2 * DefaultMaxAgeSeconds,
                 [y |-> q.folder.year, m |-> 10 * q.folder.month[1] + q.folder.month[2]],
                 "orig", NoExif)
       ELSE NoFile]
    : S \in { T \in SUBSET { q \in DstPaths : q.name \in MediaNames } : Cardinality(T) <= n } }

FirstRun == [r \in RunIds |-> IF r = 1 THEN [IdleRun EXCEPT !.pc = "begin"] ELSE IdleRun]

InitProcess ==
  /\ proc = "up"
  /\ launch = 1
  /\ main = "first"
  /\ checkCount = 0
  /\ runs = FirstRun
  /\ cpu = 1
  /\ events = {}
  /\ faults = 0
  /\ rin = NoInput
  /\ rout = NoResult

Init ==
  /\ cfg \in Cfgs
  /\ dst = EmptyArchive
  /\ src \in SourceTrees(MaxFiles, {""}, {2, 10}, {[y |-> 2023, m |-> 1]}, {NoExif})
  /\ dstDirs = {}
  /\ InitProcess

RunStep(r) ==
  \/ RunBegin(r)
  \/ CvDiscover(r) \/ CvReturn(r) \/ CvStatThrows(r) \/ CvSkip(r) \/ CvRename(r)
  \/ CvSpawn(r) \/ EncWrite(r) \/ EncExitOk(r) \/ EncExitFail(r)
  \/ CvClose(r) \/ CvUtimes(r) \/ CvDelete(r) \/ CvCatch(r)
  \/ VfDiscover(r)
  \/ MvDiscover(r) \/ MvReturn(r) \/ MvMkdir(r) \/ MvCheck(r) \/ MvCopy(r)
  \/ MvUtimes(r) \/ MvUnlink(r)

Next ==
  \/ \E r \in RunIds : RunStep(r)
  \/ \E r \in RunIds : TimerFires(r)
  \/ MainAfterFirstRun
  \/ TimePasses
  \/ \E p \in SrcPaths : RemovedOutside(p)

Spec == Init /\ [][Next]_vars

\* ------------------------------------------- the filing pass on its own
\* A single run without video conversion, over files of both directories
\* and both months, beside an archive that may hold a file already.  The
\* mover does not look at the codec: one codec per video is enough.
InitMover ==
  /\ cfg = [continuous |-> FALSE, convertVideos |-> FALSE,
            deleteOriginals |-> FALSE, ffmpeg |-> TRUE]
  /\ \E n \in 0..1 :
       /\ dst \in Archives(n)
       /\ src \in SourceTrees(MaxFiles - n, Dirs, {2 * DefaultMaxAgeSeconds}, Dates,
                               {NoExif, ExifWith([y |-> 2023, m |-> 1])})
  /\ \A p \in SrcPaths : ExistsSync(src, p) => src[p].codec \in {"na", "hevc"}
  /\ dstDirs = { q.folder : q \in { x \in DstPaths : dst[x] # NoFile } }
  /\ InitProcess

\* the mover on a folder that also holds files it is to leave alone
MixedTrees(n) ==
  UNION { { [p \in SrcPaths |-> IF p \in S THEN f[p] ELSE NoFile] :
              f \in { g \in [S -> UNION { Originals(p, {2 * DefaultMaxAgeSeconds}, Dates, {NoExif})
                                           : p \in S }] :
                        \A p \in S : g[p] \in Originals(p, {2 * DefaultMaxAgeSeconds}, Dates,
                                                        {NoExif}) } }
          : S \in { T \in SUBSET { q \in SrcPaths : q.dir = "" /\ q.name \notin TwinNames } :
                     Cardinality(T) <= n /\ \E q \in T : q.name \in OtherNames } }

InitMixed ==
  /\ cfg = [continuous |-> FALSE, convertVideos |-> FALSE,
            deleteOriginals |-> FALSE, ffmpeg |-> TRUE]
  /\ dst = EmptyArchive
  /\ src \in MixedTrees(MaxFiles)
  /\ \A p \in SrcPaths : ExistsSync(src, p) => src[p].codec \in {"na", "hevc"}
  /\ dstDirs = {}
  /\ InitProcess

NextMover ==
  \/ \E r \in RunIds :
        \/ RunBegin(r)
        \/ MvDiscover(r) \/ MvReturn(r) \/ MvMkdir(r) \/ MvCheck(r) \/ MvCopy(r)
        \/ MvUtimes(r) \/ MvUnlink(r)
  \/ MainAfterFirstRun

SpecMover == InitMover /\ [][NextMover]_vars

SpecMixed == InitMixed /\ [][NextMover]_vars

\* ----------------------------------------- interrupted and started again
\* Single runs with video conversion; the operator may interrupt the
\* program and start it again.
InitCrash ==
  /\ cfg \in { c \in Cfgs : ~c.continuous /\ c.convertVideos /\ c.ffmpeg }
  /\ dst = EmptyArchive
  /\ src \in SourceTrees(MaxFiles, {""}, {2 * DefaultMaxAgeSeconds},
                          {[y |-> 2023, m |-> 1]}, {NoExif})
  /\ dstDirs = {}
  /\ InitProcess

NextCrash ==
  \/ \E r \in RunIds :
        \/ RunBegin(r)
        \/ CvDiscover(r) \/ CvReturn(r) \/ CvSkip(r) \/ CvRename(r)
        \/ CvSpawn(r) \/ EncWrite(r) \/ EncExitOk(r) \/ EncExitFail(r)
        \/ CvClose(r) \/ CvUtimes(r) \/ CvDelete(r) \/ CvCatch(r)
        \/ VfDiscover(r)
        \/ MvDiscover(r) \/ MvReturn(r) \/ MvMkdir(r) \/ MvCheck(r) \/ MvCopy(r)
        \/ MvUtimes(r) \/ MvUnlink(r)
  \/ MainAfterFirstRun
  \/ TimePasses
  \/ Sigint
  \/ Restart

SpecCrash == InitCrash /\ [][NextCrash]_vars

\* the same on a source tree with a subfolder
InitDeep ==
  /\ cfg \in { c \in Cfgs : ~c.continuous /\ c.convertVideos /\ c.ffmpeg }
  /\ dst = EmptyArchive
  /\ src \in SourceTrees(MaxFiles, Dirs, {2 * DefaultMaxAgeSeconds},
                          {[y |-> 2023, m |-> 1]}, {NoExif})
  /\ \E p \in SrcPaths : p.dir # "" /\ ExistsSync(src, p)
  /\ dstDirs = {}
  /\ InitProcess

SpecDeep == InitDeep /\ [][NextCrash]_vars

\* the same on a folder that holds a.avi, alone or beside one other file
TwinTrees ==
  UNION { { [p \in SrcPaths |-> IF p \in S THEN f[p] ELSE NoFile] :
              f \in { g \in [S -> UNION { Originals(p, {2 * DefaultMaxAgeSeconds},
                                                     {[y |-> 2023, m |-> 1]}, {NoExif})
                                           : p \in S }] :
                        \A p \in S : g[p] \in Originals(p, {2 * DefaultMaxAgeSeconds},
                                                        {[y |-> 2023, m |-> 1]}, {NoExif}) } }
          : S \in { T \in SUBSET { q \in SrcPaths : q.dir = "" /\ q.name \notin OtherNames } :
                     /\ Cardinality(T) <= MaxFiles
                     /\ \E q \in T : q.name \in TwinNames } }

InitTwins ==
  /\ cfg \in { c \in Cfgs : ~c.continuous /\ c.convertVideos /\ c.ffmpeg }
  /\ dst = EmptyArchive
  /\ src \in TwinTrees
  /\ dstDirs = {}
  /\ InitProcess

SpecTwins == InitTwins /\ [][NextCrash]_vars

\* ------------------------------------------------- convert-videos.js
\* JavaScript values as far as the engine's parameter check tells them apart
Undefined == [type |-> "undefined"]
StrV == [type |-> "string"]
BoolV(b) == [type |-> "boolean", val |-> b]
ArrV(a) == [type |-> "array", val |-> a]

\* the k-th argument of a call, undefined when the call has fewer
Arg(args, k) == IF k <= Len(args) THEN args[k] ELSE Undefined

Truthy(v) ==
  \/ v.type \in {"string", "array"}
  \/ (v.type = "boolean" /\ v.val)

\* convertVideoFiles(inputDir, deleteOriginals, filesList, stopOnError): the
\* parameters take the arguments by position
convertVideoFilesParams(args) ==
  [inputDir |-> Arg(args, 1), deleteOriginals |-> Arg(args, 2),
   filesList |-> Arg(args, 3), stopOnError |-> Arg(args, 4)]

\* `if (!filesList || !Array.isArray(filesList)) throw`
FilesListRejected(params) ==
  ~Truthy(params.filesList) \/ params.filesList.type # "array"

\* what the conversion loop reports for a file it has got to
Processed == {"skipping - already converted", "already h264 - moved",
              "failed to move", "converting"}

\* convert-videos.js checkAndCovertVideoFiles up to `await getFiles(...)`
CliBegin(r) ==
  /\ main = "cli" /\ cpu = r /\ runs[r].pc = "cli_begin"
  /\ IF ~cfg.ffmpeg
     THEN /\ SetRun(r, [runs[r] EXCEPT !.pc = "done"])
          /\ events' = events \cup {Event(r, NoPath, "video conversion failed")}
     ELSE /\ SetRun(r, [runs[r] EXCEPT !.pc = "cli_discover"])
          /\ UNCHANGED events
  /\ cpu' = 0
  /\ UNCHANGED <<src, dst, dstDirs, cfg, proc, launch, main, checkCount, faults, rin, rout>>

\* the list arrives; with files in it the engine is called as
\* convertVideoFiles(srcPath, srcPath, deleteOriginals, videoFiles, stopOnError)
CliConvert(r) ==
  /\ main = "cli" /\ proc = "up" /\ cpu = 0 /\ runs[r].pc = "cli_discover"
  /\ LET videoFiles == getFiles(src, VIDEO_FILE_EXTENSIONS, IGNORED_FILES)
         params == convertVideoFilesParams(
                     <<StrV, StrV, BoolV(cfg.deleteOriginals), ArrV(videoFiles),
                       BoolV(cfg.stopOnError)>>)
     IN  IF Len(videoFiles) = 0
         THEN /\ SetRun(r, [runs[r] EXCEPT !.pc = "done"])
              /\ events' = events \cup {Event(r, NoPath, "no video files found")}
              /\ UNCHANGED cpu
         ELSE IF FilesListRejected(params)
         THEN /\ SetRun(r, [runs[r] EXCEPT !.pc = "done", !.files = videoFiles])
              /\ events' = events \cup
                   {Event(r, NoPath, "video conversion failed: filesList must be an array")}
              /\ UNCHANGED cpu
         ELSE /\ SetRun(r, [runs[r] EXCEPT !.pc = "cv_loop", !.i = 1,
                                           !.files = params.filesList.val])
              /\ UNCHANGED events
              /\ cpu' = r
  /\ UNCHANGED <<src, dst, dstDirs, cfg, proc, launch, main, checkCount, faults, rin, rout>>

\* checkAndCovertVideoFiles has returned: the main function ends and with it
\* the process
CliEnd ==
  /\ main = "cli" /\ proc = "up" /\ cpu = 0 /\ runs[1].pc = "done"
  /\ proc' = "exited"
  /\ UNCHANGED <<src, dst, dstDirs, cfg, launch, main, checkCount, runs, cpu, events,
                 faults, rin, rout>>

InitCli ==
  /\ cfg \in [continuous : {FALSE}, convertVideos : {TRUE}, deleteOriginals : BOOLEAN,
              ffmpeg : BOOLEAN, stopOnError : BOOLEAN]
  /\ src \in SourceTrees(MaxFiles, {""}, {2 * DefaultMaxAgeSeconds},
                          {[y |-> 2023, m |-> 1]}, {NoExif})
  /\ dst = EmptyArchive
  /\ dstDirs = {}
  /\ proc = "up" /\ launch = 1 /\ main = "cli" /\ checkCount = 0
  /\ runs = [r \in RunIds |-> IF r = 1 THEN [IdleRun EXCEPT !.pc = "cli_begin"] ELSE IdleRun]
  /\ cpu = 1
  /\ events = {}
  /\ faults = 0
  /\ rin = NoInput
  /\ rout = NoResult

NextCli ==
  \/ \E r \in RunIds : CliBegin(r) \/ CliConvert(r)
  \/ CliEnd

SpecCli == InitCli /\ [][NextCli]_vars

\* -------------------------------------------------- dedupe-videos.js
MaxDedupeFiles == 4   \* video files in the tree the duplicate detector scans

DURATION_TOLERANCE_SECONDS == 1

\* Durations are counted in tenths of a second.
ToleranceTenths == 10 * DURATION_TOLERANCE_SECONDS

\* what ffprobe prints for the duration of a file: a number or a text like N/A
NumOut(n) == [kind |-> "num", val |-> n]
TextOut == [kind |-> "text"]

\* the values of getDurationSeconds: a number, NaN or null
NaN == [kind |-> "NaN"]
Null == [kind |-> "null"]

\* parseFloat(result)
ParseFloat(out) == IF out.kind = "num" THEN out ELSE NaN

\* a file with the duration ffprobe prints for it
WithDuration(f, out) ==
  [k \in DOMAIN f \cup {"duration"} |-> IF k = "duration" THEN out ELSE f[k]]

\* Math.abs(a - b) <= t for the values of getDurationSeconds; a comparison
\* with NaN is false
AbsDiffAtMost(a, b, t) ==
  /\ a.kind = "num" /\ b.kind = "num"
  /\ (IF a.val >= b.val THEN a.val - b.val ELSE b.val - a.val) <= t

\* groupVideoFiles: the key of a file, its directory and lower-cased base name
GroupKey(p) ==
  LET baseName == BaseName(p.name, ExtName(p.name))
  IN  [dir |-> p.dir, base |-> [k \in 1..Len(baseName) |-> ToLowerCase(baseName[k])]]

\* the index of the group of a key, 0 when there is none yet
GroupIndex(groups, key) ==
  IF \E j \in 1..Len(groups) : groups[j].key = key
  THEN CHOOSE j \in 1..Len(groups) : groups[j].key = key
  ELSE 0

\* groupVideoFiles: the loop over the files from the k-th on; the groups are
\* kept in the order of the Map, that of their first file
RECURSIVE GroupFrom(_, _, _)
GroupFrom(videoFiles, k, groups) ==
  IF k > Len(videoFiles) THEN groups
  ELSE LET filePath == videoFiles[k].srcFilePath
           key == GroupKey(filePath)
           had == GroupIndex(groups, key)
           g0 == IF had = 0
                 THEN Append(groups, [key |-> key, mp4 |-> NoPath, others |-> <<>>])
                 ELSE groups
           j == IF had = 0 THEN Len(g0) ELSE had
           g1 == IF ToLowerCase(ExtName(filePath.name)) = "mp4"
                 THEN [g0 EXCEPT ![j].mp4 = filePath]
                 ELSE [g0 EXCEPT ![j].others = Append(@, filePath)]
       IN  GroupFrom(videoFiles, k + 1, g1)

groupVideoFiles(videoFiles) == GroupFrom(videoFiles, 1, <<>>)

\* findDuplicates: the groups with an mp4 and at least one other file
RECURSIVE GroupsWithMp4(_)
GroupsWithMp4(groups) ==
  IF groups = <<>> THEN <<>>
  ELSE (IF Head(groups).mp4 # NoPath /\ Len(Head(groups).others) > 0
        THEN <<Head(groups)>> ELSE <<>>) \o GroupsWithMp4(Tail(groups))

\* the run of dedupeVideoFiles
NoDuration == [kind |-> "none"]
DdRun == [pc |-> "dd_begin", files |-> <<>>, groups |-> <<>>, g |-> 0, o |-> 0,
          mp4Duration |-> NoDuration, duplicates |-> <<>>, d |-> 0]

\* dedupeVideoFiles throws or returns: the run is over
DdOver(r, what) ==
  /\ SetRun(r, [runs[r] EXCEPT !.pc = "done"])
  /\ events' = events \cup {Event(r, NoPath, what)}
  /\ cpu' = 0

\* dedupeVideoFiles up to `await getFiles(...)`
DdBegin(r) ==
  /\ main = "dedupe" /\ cpu = r /\ runs[r].pc = "dd_begin"
  /\ IF ~cfg.ffmpeg
     THEN DdOver(r, "duplicate detection failed")
     ELSE /\ SetRun(r, [runs[r] EXCEPT !.pc = "dd_discover"])
          /\ cpu' = 0
          /\ UNCHANGED events
  /\ UNCHANGED <<src, dst, dstDirs, cfg, proc, launch, main, checkCount, faults, rin, rout>>

\* the list arrives and findDuplicates groups the files
DdDiscover(r) ==
  /\ main = "dedupe" /\ proc = "up" /\ cpu = 0 /\ runs[r].pc = "dd_discover"
  /\ LET videoFiles == getFiles(src, VIDEO_FILE_EXTENSIONS, IGNORED_FILES)
         groupsWithMp4 == GroupsWithMp4(groupVideoFiles(videoFiles))
     IN  IF Len(videoFiles) = 0
         THEN DdOver(r, "no video files found")
         ELSE IF Len(groupsWithMp4) = 0
         THEN /\ SetRun(r, [runs[r] EXCEPT !.pc = "done", !.files = videoFiles])
              /\ events' = events \cup {Event(r, NoPath, "no duplicates found")}
              /\ UNCHANGED cpu
         ELSE /\ SetRun(r, [runs[r] EXCEPT !.pc = "dd_mp4", !.files = videoFiles,
                                           !.groups = groupsWithMp4, !.g = 1])
              /\ cpu' = r
              /\ UNCHANGED events
  /\ UNCHANGED <<src, dst, dstDirs, cfg, proc, launch, main, checkCount, faults, rin, rout>>

\* getDurationSeconds(p) returning v: ffprobe prints the duration, or fails
\* (the file is gone, or a failure counted with the others) and v is null
Probed(p, v) ==
  IF ExistsSync(src, p)
  THEN \E ok \in {TRUE, FALSE} :
         /\ Outcome(ok, TRUE)
         /\ v = IF ok THEN ParseFloat(src[p].duration) ELSE Null
  ELSE v = Null /\ UNCHANGED faults

DdProbeMp4_StopIgnored(r) ==
  /\ cpu = r /\ runs[r].pc = "dd_mp4" /\ runs[r].g <= Len(runs[r].groups)
  /\ LET mp4Path == runs[r].groups[runs[r].g].mp4
     IN  \E mp4Duration \in {Null, NaN} \cup {ParseFloat(src[mp4Path].duration)} :
           /\ Probed(mp4Path, mp4Duration)
           /\ IF mp4Duration = Null
              THEN /\ SetRun(r, [runs[r] EXCEPT !.g = @ + 1])
                   /\ UNCHANGED cpu
                   /\ events' = events \cup
                        {Event(r, mp4Path, "could not get duration")}
              ELSE /\ SetRun(r, [runs[r] EXCEPT !.pc = "dd_other", !.o = 1,
                                                !.mp4Duration = mp4Duration])
                   /\ UNCHANGED <<cpu, events>>
  /\ UNCHANGED <<src, dst, dstDirs, cfg, proc, launch, main, checkCount, rin, rout>>

\* the head of the loop over the groups: the duration of the MP4
DdProbeMp4(r) ==
  /\ cpu = r /\ runs[r].pc = "dd_mp4" /\ runs[r].g <= Len(runs[r].groups)
  /\ LET mp4Path == runs[r].groups[runs[r].g].mp4
     IN  \E mp4Duration \in {Null, NaN} \cup {ParseFloat(src[mp4Path].duration)} :
           /\ Probed(mp4Path, mp4Duration)
           /\ IF mp4Duration = Null
              THEN IF cfg.stopOnError
                   THEN /\ SetRun(r, [runs[r] EXCEPT !.pc = "done"])
                        /\ cpu' = 0
                        /\ events' = events \cup
                             {Event(r, mp4Path, "could not get duration"),
                              Event(r, NoPath, "duplicate detection failed")}
                   ELSE /\ SetRun(r, [runs[r] EXCEPT !.g = @ + 1])
                        /\ UNCHANGED cpu
                        /\ events' = events \cup
                             {Event(r, mp4Path, "could not get duration")}
              ELSE /\ SetRun(r, [runs[r] EXCEPT !.pc = "dd_other", !.o = 1,
                                                !.mp4Duration = mp4Duration])
                   /\ UNCHANGED <<cpu, events>>
  /\ UNCHANGED <<src, dst, dstDirs, cfg, proc, launch, main, checkCount, rin, rout>>

\* the loop over the other files of the group: probe and compare
DdProbeOther(r) ==
  /\ cpu = r /\ runs[r].pc = "dd_other"
  /\ runs[r].o <= Len(runs[r].groups[runs[r].g].others)
  /\ LET group == runs[r].groups[runs[r].g]
         otherPath == group.others[runs[r].o]
     IN  \E otherDuration \in {Null, NaN} \cup {ParseFloat(src[otherPath].duration)} :
           /\ Probed(otherPath, otherDuration)
           /\ IF otherDuration = Null
              THEN IF cfg.stopOnError
                   THEN /\ SetRun(r, [runs[r] EXCEPT !.pc = "done"])
                        /\ cpu' = 0
                        /\ events' = events \cup
                             {Event(r, otherPath, "could not get duration"),
                              Event(r, NoPath, "duplicate detection failed")}
                   ELSE /\ SetRun(r, [runs[r] EXCEPT !.o = @ + 1])
                        /\ UNCHANGED cpu
                        /\ events' = events \cup
                             {Event(r, otherPath, "could not get duration")}
              ELSE IF AbsDiffAtMost(runs[r].mp4Duration, otherDuration, ToleranceTenths)
              THEN /\ SetRun(r, [runs[r] EXCEPT !.o = @ + 1,
                        !.duplicates = Append(@, [path |-> otherPath, mp4Path |-> group.mp4,
                                                  duration |-> otherDuration,
                                                  mp4Duration |-> runs[r].mp4Duration])])
                   /\ UNCHANGED cpu
                   /\ events' = events \cup {Event(r, otherPath, "DUPLICATE")}
              ELSE /\ SetRun(r, [runs[r] EXCEPT !.o = @ + 1])
                   /\ UNCHANGED cpu
                   /\ events' = events \cup {Event(r, otherPath, "KEPT")}
  /\ UNCHANGED <<src, dst, dstDirs, cfg, proc, launch, main, checkCount, rin, rout>>

\* the others of the group are done: on to the next group
DdNextGroup(r) ==
  /\ cpu = r /\ runs[r].pc = "dd_other"
  /\ runs[r].o > Len(runs[r].groups[runs[r].g].others)
  /\ SetRun(r, [runs[r] EXCEPT !.pc = "dd_mp4", !.g = @ + 1, !.o = 0,
                               !.mp4Duration = NoDuration])
  /\ UNCHANGED <<src, dst, dstDirs, cfg, proc, launch, main, checkCount, cpu, events,
                 faults, rin, rout>>

DdSummary_IgnoreDryRun(r) ==
  /\ cpu = r /\ runs[r].pc = "dd_mp4" /\ runs[r].g > Len(runs[r].groups)
  /\ IF Len(runs[r].duplicates) = 0
     THEN DdOver(r, "no duplicates found")
     ELSE /\ SetRun(r, [runs[r] EXCEPT !.pc = "dd_delete", !.d = 1])
          /\ UNCHANGED <<cpu, events>>
  /\ UNCHANGED <<src, dst, dstDirs, cfg, proc, launch, main, checkCount, faults, rin, rout>>

\* findDuplicates has returned: nothing found, a dry run, or the deletion
DdSummary(r) ==
  /\ cpu = r /\ runs[r].pc = "dd_mp4" /\ runs[r].g > Len(runs[r].groups)
  /\ IF Len(runs[r].duplicates) = 0
     THEN DdOver(r, "no duplicates found")
     ELSE IF cfg.dryRun
     THEN DdOver(r, "dry run: no files were deleted")
     ELSE /\ SetRun(r, [runs[r] EXCEPT !.pc = "dd_delete", !.d = 1])
          /\ UNCHANGED <<cpu, events>>
  /\ UNCHANGED <<src, dst, dstDirs, cfg, proc, launch, main, checkCount, faults, rin, rout>>

\* DdDelete unlinking the MP4 of the pair instead of the duplicate
DdDelete_UnlinksMp4(r) ==
  /\ cpu = r /\ runs[r].pc = "dd_delete" /\ runs[r].d <= Len(runs[r].duplicates)
  /\ LET dup == runs[r].duplicates[runs[r].d]
     IN  \E ok \in {TRUE, FALSE} :
           /\ Outcome(ok, ExistsSync(src, dup.mp4Path))
           /\ IF ok
              THEN /\ src' = [src EXCEPT ![dup.mp4Path] = NoFile]
                   /\ events' = events \cup {Event(r, dup.path, "deleted")}
              ELSE /\ events' = events \cup {Event(r, dup.path, "failed to delete")}
                   /\ UNCHANGED src
  /\ SetRun(r, [runs[r] EXCEPT !.d = @ + 1])
  /\ UNCHANGED <<dst, dstDirs, cfg, proc, launch, main, checkCount, cpu, rin, rout>>

\* deleteDuplicates: fs.unlinkSync(dup.path) in its try/catch
DdDelete(r) ==
  /\ cpu = r /\ runs[r].pc = "dd_delete" /\ runs[r].d <= Len(runs[r].duplicates)
  /\ LET dup == runs[r].duplicates[runs[r].d]
     IN  \E ok \in {TRUE, FALSE} :
           /\ Outcome(ok, ExistsSync(src, dup.path))
           /\ IF ok
              THEN /\ src' = [src EXCEPT ![dup.path] = NoFile]
                   /\ events' = events \cup {Event(r, dup.path, "deleted")}
              ELSE /\ events' = events \cup {Event(r, dup.path, "failed to delete")}
                   /\ UNCHANGED src
  /\ SetRun(r, [runs[r] EXCEPT !.d = @ + 1])
  /\ UNCHANGED <<dst, dstDirs, cfg, proc, launch, main, checkCount, cpu, rin, rout>>

\* deleteDuplicates and dedupeVideoFiles return
DdReturn(r) ==
  /\ cpu = r /\ runs[r].pc = "dd_delete" /\ runs[r].d > Len(runs[r].duplicates)
  /\ DdOver(r, "deleted duplicates")
  /\ UNCHANGED <<src, dst, dstDirs, cfg, proc, launch, main, checkCount, faults, rin, rout>>

\* the main function ends and with it the process
DdEnd ==
  /\ main = "dedupe" /\ proc = "up" /\ cpu = 0 /\ runs[1].pc = "done"
  /\ proc' = "exited"
  /\ UNCHANGED <<src, dst, dstDirs, cfg, launch, main, checkCount, runs, cpu, events,
                 faults, rin, rout>>

\* the durations ffprobe may print for a path: the MP4s last 120.4 s, the
\* others 121.0 s, 121.4 s or 125.0 s, or have no duration (N/A)
DurationsOf(p) ==
  IF ToLowerCase(ExtName(p.name)) = "mp4"
  THEN {NumOut(1204)}
  ELSE {NumOut(1210), NumOut(1214), NumOut(1250), TextOut}

VideoPaths ==
  { p \in SrcPaths : /\ ToLowerCase(ExtName(p.name)) \in VIDEO_FILE_EXTENSIONS
                     /\ p.name \in MediaNames }

\* the trees of at most n video files, each with a duration
DedupeTrees(n) ==
  UNION { { [p \in SrcPaths |->
               IF p \in S
               THEN WithDuration(File(p, "orig", "hevc", 2 * DefaultMaxAgeSeconds,
                                      [y |-> 2023, m |-> 1], "orig", NoExif), f[p])
               ELSE NoFile] :
              f \in { g \in [S -> UNION { DurationsOf(p) : p \in S }] :
                        \A p \in S : g[p] \in DurationsOf(p) } }
          : S \in { T \in SUBSET VideoPaths : Cardinality(T) <= n } }

InitDedupe ==
  /\ cfg \in [continuous : {FALSE}, convertVideos : {FALSE}, deleteOriginals : {FALSE},
              ffmpeg : BOOLEAN, dryRun : BOOLEAN, stopOnError : BOOLEAN]
  /\ src \in DedupeTrees(MaxDedupeFiles)
  /\ dst = EmptyArchive
  /\ dstDirs = {}
  /\ proc = "up" /\ launch = 1 /\ main = "dedupe" /\ checkCount = 0
  /\ runs = [r \in RunIds |-> IF r = 1 THEN DdRun ELSE IdleRun]
  /\ cpu = 1
  /\ events = {}
  /\ faults = 0
  /\ rin = NoInput
  /\ rout = NoResult

NextDedupe ==
  \/ \E r \in RunIds :
        \/ DdBegin(r) \/ DdDiscover(r) \/ DdProbeMp4(r) \/ DdProbeOther(r)
        \/ DdNextGroup(r) \/ DdSummary(r) \/ DdDelete(r) \/ DdReturn(r)
  \/ DdEnd

SpecDedupe == InitDedupe /\ [][NextDedupe]_vars

\* ------------------------------------------- the stability gate on its own
\* isFileStable is called for one file of every age, with and without its
\* second argument.
MaxAge == 10   \* the largest age and threshold tried, in seconds

NumV(n) == [type |-> "number", val |-> n]

\* the default parameter value: maxAgeSeconds = 5
MaxAgeSecondsOf(arg) == IF arg = Undefined THEN DefaultMaxAgeSeconds ELSE arg.val

StableCheck ==
  /\ rin # NoInput /\ rout = NoResult
  /\ rout' = [stable |-> isFileStable(src, rin.path, MaxAgeSecondsOf(rin.maxAgeSeconds))]
  /\ UNCHANGED <<src, dst, dstDirs, cfg, proc, launch, main, checkCount, runs, cpu,
                 events, faults, rin>>

InitStable ==
  /\ cfg = [continuous |-> FALSE, convertVideos |-> FALSE,
            deleteOriginals |-> FALSE, ffmpeg |-> TRUE]
  /\ \E p \in SrcPaths, age \in 0..MaxAge :
       /\ src = [q \in SrcPaths |->
                   IF q = p
                   THEN File(p, "orig", "na", age, [y |-> 2023, m |-> 1], "orig", NoExif)
                   ELSE NoFile]
       /\ rin \in [path : {p}, maxAgeSeconds : {Undefined} \cup { NumV(n) : n \in 0..MaxAge }]
  /\ dst = EmptyArchive
  /\ dstDirs = {}
  /\ proc = "up" /\ launch = 1 /\ main = "first" /\ checkCount = 0
  /\ runs = [r \in RunIds |-> IdleRun]
  /\ cpu = 0
  /\ events = {}
  /\ faults = 0
  /\ rout = NoResult

NextStable == StableCheck

SpecStable == InitStable /\ [][NextStable]_vars

\* ------------------------------------------------ the resolver on its own
\* getExtendedFile, the mapping of getFiles and the plan of moveFiles are
\* applied to one file, for every birth time and every behaviour of the
\* EXIF reader.
ExifOutcomes ==
  { [kind |-> k, exif |-> [f \in ExifFields |-> NoDate]] : k \in {"throw", "error"} }
  \cup { [kind |-> "data", exif |-> x] : x \in [ExifFields -> Dates \cup {NoDate}] }

ResolvedPath == [dir |-> "", name |-> <<"a", "jpg">>]

ResolveFile ==
  /\ rin # NoInput /\ rout = NoResult
  /\ LET f == File(ResolvedPath, "orig", "na", 2 * DefaultMaxAgeSeconds,
                   rin.birthtime, "orig", rin.meta)
         file == FileForProcessing(ResolvedPath, f)
         plan == FileForFiling(file)
     IN  rout' = [filingCreatedDate |-> file.filingCreatedDate,
                  filingDateSrc |-> file.filingDateSrc,
                  exifData |-> file.exifData,
                  errorInfo |-> getExtendedFile(rin.birthtime, rin.meta).errorInfo,
                  dstPath |-> plan.dstPath,
                  dstFilePath |-> plan.dstFilePath]
  /\ UNCHANGED <<src, dst, dstDirs, cfg, proc, launch, main, checkCount, runs, cpu,
                 events, faults, rin>>

InitResolver ==
  /\ cfg = [continuous |-> FALSE, convertVideos |-> FALSE,
            deleteOriginals |-> FALSE, ffmpeg |-> TRUE]
  /\ src = [p \in SrcPaths |-> NoFile]
  /\ dst = EmptyArchive
  /\ dstDirs = {}
  /\ proc = "up" /\ launch = 1 /\ main = "first" /\ checkCount = 0
  /\ runs = [r \in RunIds |-> IdleRun]
  /\ cpu = 0
  /\ events = {}
  /\ faults = 0
  /\ rin \in [birthtime : Dates, meta : ExifOutcomes]
  /\ rout = NoResult

NextResolver == ResolveFile

SpecResolver == InitResolver /\ [][NextResolver]_vars

\* ------------------------------------- the promise of getExtendedFile
\* How the promise is settled, for every behaviour of the EXIF reader: the
\* data may lack its exif or its image section, the callback may be called
\* inside the constructor call (inline) or later, and a reader whose callback
\* has thrown may call it again with the error or not.
Sections == {"none", "exif", "image"}

\* the callback evaluates exifData.exif.CreateDate || ... ||
\* exifData.image.CreateDate || exifData.image.ModifyDate: a TypeError when
\* the section it reaches is missing
CallbackThrows(meta, lacks) ==
  /\ meta.kind = "data"
  /\ \/ lacks = "exif"
     \/ /\ lacks = "image"
        /\ Or(meta.exif.eCreateDate,
              Or(meta.exif.eDateTimeOriginal, meta.exif.eDateTimeDigitized)) = NoDate

\* the number of times resolve is reached: in the callback after its last
\* statement, or in the catch around the constructor call, which sees what
\* the constructor and an inline callback throw
Resolves(meta, lacks, delivery, recalled) ==
  IF meta.kind = "throw" THEN 1
  ELSE IF ~CallbackThrows(meta, lacks) THEN 1
  ELSE IF delivery = "inline" THEN 1
  ELSE IF recalled THEN 1
  ELSE 0

SettleFile ==
  /\ rin # NoInput /\ rout = NoResult
  /\ rout' = [resolves |-> Resolves(rin.meta, rin.lacks, rin.delivery, rin.recalled),
              filingDateSrc |->
                IF CallbackThrows(rin.meta, rin.lacks)
                THEN "file.createdAt"
                ELSE getExtendedFile(rin.birthtime, rin.meta).filingDateSrc]
  /\ UNCHANGED <<src, dst, dstDirs, cfg, proc, launch, main, checkCount, runs, cpu,
                 events, faults, rin>>

InitSettle ==
  /\ cfg = [continuous |-> FALSE, convertVideos |-> FALSE,
            deleteOriginals |-> FALSE, ffmpeg |-> TRUE]
  /\ src = [p \in SrcPaths |-> NoFile]
  /\ dst = EmptyArchive
  /\ dstDirs = {}
  /\ proc = "up" /\ launch = 1 /\ main = "first" /\ checkCount = 0
  /\ runs = [r \in RunIds |-> IdleRun]
  /\ cpu = 0
  /\ events = {}
  /\ faults = 0
  /\ rin \in { i \in [birthtime : Dates, meta : ExifOutcomes, lacks : Sections,
                      delivery : {"inline", "later"}, recalled : BOOLEAN] :
                 /\ i.meta.kind # "data" => i.lacks = "none"
                 /\ (i.delivery = "inline" \/ ~CallbackThrows(i.meta, i.lacks)) => ~i.recalled }
  /\ rout = NoResult

NextSettle == SettleFile

SpecSettle == InitSettle /\ [][NextSettle]_vars

\* --------------------------------------- the removal of the empty folders
\* utils.js cleanEmptyFoldersRecursively on a tree of folders and files.  A
\* path is the sequence of its names below the root, the root is <<>>.
MaxEntries == 4
Root == <<>>
FolderNames == {"x", "y"}
EntryOrder == <<"f", "x", "y">>

\* the trees below the root with at most n entries, folders and files
RECURSIVE TreesUpTo(_)
TreesUpTo(n) ==
  IF n = 0 THEN { [dirs |-> {Root}, files |-> {}] }
  ELSE LET less == TreesUpTo(n - 1)
       IN  less
           \cup UNION { { [t EXCEPT !.dirs = @ \cup {Append(d, c)}] :
                            d \in t.dirs, c \in FolderNames } : t \in less }
           \cup UNION { { [t EXCEPT !.files = @ \cup {Append(d, "f")}] :
                            d \in t.dirs } : t \in less }

Trees == TreesUpTo(MaxEntries)

\* fs.readdirSync(folder): the names of the entries of the folder
Readdir(st, folder) ==
  SelectSeq(EntryOrder, LAMBDA n : Append(folder, n) \in st.dirs \cup st.files)

\* fs.rmdirSync(folder): it throws on a folder that is not empty and on one
\* the process may not remove
Rmdir(st, folder) ==
  IF Readdir(st, folder) # <<>> \/ folder \in st.denied
  THEN [st EXCEPT !.threw = TRUE]
  ELSE [st EXCEPT !.dirs = @ \ {folder},
                  !.removed = Append(@, [folder |-> folder, entries |-> Readdir(st, folder)])]

Reread_Stale(st, folder, files, isSubFolder) == files

\* `if (isSubFolder) { files = fs.readdirSync(folder); }` after the forEach
Reread(st, folder, files, isSubFolder) ==
  IF isSubFolder THEN Readdir(st, folder) ELSE files

\* cleanEmptyFoldersRecursively(folder, isSubFolder); an exception ends
\* every call on the stack
RECURSIVE Clean(_, _, _)
RECURSIVE CleanEach(_, _, _, _)
CleanEach(st, folder, files, k) ==
  IF k > Len(files) \/ st.threw THEN st
  ELSE CleanEach(Clean(st, Append(folder, files[k]), TRUE), folder, files, k + 1)

Clean(st, folder, isSubFolder) ==
  IF folder \notin st.dirs THEN st
  ELSE LET files == Readdir(st, folder)
           s1 == IF Len(files) > 0 THEN CleanEach(st, folder, files, 1) ELSE st
           again == IF Len(files) > 0 THEN Reread(s1, folder, files, isSubFolder) ELSE files
       IN  IF s1.threw THEN s1
           ELSE IF Len(again) = 0 /\ isSubFolder THEN Rmdir(s1, folder)
           ELSE s1

\* main: cleanEmptyFoldersRecursively(srcPath)
CleanRoot ==
  /\ rin # NoInput /\ rout = NoResult
  /\ rout' = Clean([dirs |-> rin.dirs, files |-> rin.files, denied |-> rin.denied,
                    removed |-> <<>>, threw |-> FALSE], Root, FALSE)
  /\ UNCHANGED <<src, dst, dstDirs, cfg, proc, launch, main, checkCount, runs, cpu,
                 events, faults, rin>>

InitClean ==
  /\ cfg = [continuous |-> FALSE, convertVideos |-> FALSE,
            deleteOriginals |-> FALSE, ffmpeg |-> TRUE]
  /\ src = [p \in SrcPaths |-> NoFile]
  /\ dst = EmptyArchive
  /\ dstDirs = {}
  /\ proc = "up" /\ launch = 1 /\ main = "first" /\ checkCount = 0
  /\ runs = [r \in RunIds |-> IdleRun]
  /\ cpu = 0
  /\ events = {}
  /\ faults = 0
  /\ \E t \in Trees :
       \E denied \in {{}} \cup { {d} : d \in t.dirs \ {Root} } :
         rin = [dirs |-> t.dirs, files |-> t.files, denied |-> denied]
  /\ rout = NoResult

NextClean == CleanRoot

SpecClean == InitClean /\ [][NextClean]_vars

\* ================================================================== claims
\* the file a run is working on
Cur(r) == runs[r].files[runs[r].i]

\* C1: filing never overwrites.  A file of the archive is never changed or
\* removed (the one exception is the timestamp restore of the copy the run
\* has just made itself), and when the Mover reaches a file whose
\* destination exists, that step changes neither tree, reports
\* 'destination already exists' and goes on to the next file, so that no
\* copy, timestamp set or unlink is made for it.
C1_FilingNeverOverwrites ==
  [][ /\ \A q \in DstPaths :
           ExistsSync(dst, q) =>
             \/ dst'[q] = dst[q]
             \/ \E r \in RunIds : runs[r].pc = "mv_utimes" /\ Cur(r).dstFilePath = q
      /\ \A r \in RunIds :
           (runs[r].pc = "mv_check" /\ ExistsSync(dst, Cur(r).dstFilePath)) =>
             /\ src' = src /\ dst' = dst
             /\ runs'[r].pc = "mv_mkdir" /\ runs'[r].i = runs[r].i + 1
             /\ Event(r, Cur(r).srcFilePath, "destination already exists") \in events'
    ]_vars

\* C1 witness: in one batch a file was moved and another source of the same
\* name was skipped because its destination existed.
C1_Witness ==
  \E e1 \in events, e2 \in events :
    /\ e1.what = "destination already exists" /\ e2.what = "moved"
    /\ e1.run = e2.run /\ e1.launch = e2.launch
    /\ e1.path.name = e2.path.name /\ e1.path # e2.path

\* C2: when the embedded metadata holds a non-empty date, the filing date
\* the resolver returns is a metadata date and the destination folder is
\* computed from it; the birth time is used only without a metadata date.
C2_MetadataDateIsFilingDate ==
  rout # NoResult =>
    LET found == { rin.meta.exif[f] : f \in ExifFields } \ {NoDate}
    IN  /\ rout.dstPath = DstFolder(rout.filingCreatedDate)
        /\ IF rin.meta.kind = "data" /\ found # {}
           THEN rout.filingCreatedDate \in found
           ELSE rout.filingCreatedDate = rin.birthtime

\* C3: the Mover never loses a file.  A source file disappears only in the
\* unlink step of the Mover, when the destination holds its copy with the
\* timestamps restored; and when the copy or the timestamp restore fails,
\* the source tree is unchanged, the source still exists and an error is
\* reported for it.
C3_UnlinkOnlyAfterCopyAndRestore ==
  [][ /\ \A p \in SrcPaths :
           (ExistsSync(src, p) /\ ~ExistsSync(src', p)) =>
             \E r \in RunIds :
               /\ runs[r].pc = "mv_unlink" /\ Cur(r).srcFilePath = p
               /\ ExistsSync(dst', Cur(r).dstFilePath)
               /\ dst'[Cur(r).dstFilePath].origin = src[p].origin
               /\ dst'[Cur(r).dstFilePath].kind = src[p].kind
               /\ dst'[Cur(r).dstFilePath].times = "orig"
      /\ \A r \in RunIds :
           (runs[r].pc \in {"mv_copy", "mv_utimes"} /\ runs'[r].pc = "mv_mkdir") =>
             /\ src' = src
             /\ ExistsSync(src', Cur(r).srcFilePath)
             /\ \E e \in events' \ events :
                  /\ e.path = Cur(r).srcFilePath
                  /\ e.what \in {"error moving: copy", "error moving: utimes"}
    ]_vars

\* C3 witness: the timestamp restore failed for a file, which is still in
\* the source tree beside its copy in the archive.
C3_Witness ==
  \E r \in RunIds :
    /\ runs[r].pc = "mv_mkdir" /\ runs[r].i > 1
    /\ Event(r, runs[r].files[runs[r].i - 1].srcFilePath, "error moving: utimes") \in events
    /\ ExistsSync(src, runs[r].files[runs[r].i - 1].srcFilePath)
    /\ ExistsSync(dst, runs[r].files[runs[r].i - 1].dstFilePath)

\* a partially written encoder output lies at p
PartialAt(p) == ExistsSync(src, p) /\ src[p].kind = "part"

\* C4: a partial output left by an interrupted process is never taken for a
\* conversion.  As long as no call has failed, no run has skipped a source
\* as 'already converted' whose output is a partially written file, and no
\* run passes the verification and reaches the filing while a partially
\* written file lies in the source tree.
C4_PartialOutputNeverValid ==
  faults = 0 =>
    \A r \in RunIds :
      /\ \A e \in events :
           (e.launch = launch /\ e.run = r /\ e.what = "skipping - already converted")
             => ~PartialAt(OutPath(e.path))
      /\ runs[r].pc = "mv_discover" => \A p \in SrcPaths : ~PartialAt(p)

\* the file the conversion loop of run r has just finished handling
Handled(r) == runs[r].files[runs[r].i - 1].srcFilePath

\* C5: when the encoder has exited with code 0 and the delete of the source
\* has failed, the failure is reported and, when convertVideoFiles has
\* finished handling that file, the output produced for it still exists.
C5_OutputKeptWhenDeleteFails ==
  \A r \in RunIds :
    ( /\ runs[r].pc = "cv_loop" /\ runs[r].i > 1
      /\ Event(r, Handled(r), "failed to delete original") \in events )
    => ExistsSync(src, OutPath(Handled(r)))

\* the runs of checkAndFolderize that have started and not yet returned
LiveRuns == { r \in RunIds : runs[r].pc \notin {"idle", "done"} }

\* C6: in continuous mode two runs of checkAndFolderize never overlap: at
\* most one run has started and not yet returned.
C6_RunsNeverOverlap ==
  cfg.continuous => Cardinality(LiveRuns) <= 1

\* the video files discovery finds in the tree fs
IsVideo(fs, p) ==
  /\ ExistsSync(fs, p)
  /\ p.name \notin IGNORED_FILES
  /\ ToLowerCase(ExtName(p.name)) \in VIDEO_FILE_EXTENSIONS

\* the .mp4 beside p with the name of p less its extension
SiblingMp4(p) == [dir |-> p.dir, name |-> <<p.name[1], "mp4">>]

\* no video of fs is unstable and every non-MP4 video has its sibling .mp4
GateOpen(fs) ==
  \A p \in SrcPaths :
    IsVideo(fs, p) =>
      /\ fs[p].age >= DefaultMaxAgeSeconds
      /\ ToLowerCase(ExtName(p.name)) # "mp4" => ExistsSync(fs, SiblingMp4(p))

\* C7: the filing gate.  With video normalization enabled a run invokes
\* moveFiles only from the point after the verification, and reaches that
\* point only through a verification made on a tree without an unstable
\* video and without a non-MP4 video lacking its sibling .mp4; a
\* verification on any other tree, and a normalization pass that threw, end
\* the run with the filing skipped; and the archive is changed only by a
\* run that invoked moveFiles.
C7_FilingGate ==
  [][ /\ \A r \in RunIds :
           cfg.convertVideos =>
             /\ (runs[r].filing # "invoked" /\ runs'[r].filing = "invoked")
                  => runs[r].pc = "mv_discover"
             /\ (runs[r].pc # "mv_discover" /\ runs'[r].pc = "mv_discover")
                  => (runs[r].pc = "vf_discover" /\ GateOpen(src))
             /\ (runs[r].pc = "vf_discover" /\ runs'[r] # runs[r] /\ ~GateOpen(src))
                  => (runs'[r].pc = "done" /\ runs'[r].filing = "skipped")
             /\ (runs[r].pc \in {"begin", "cv_loop"} /\ runs'[r].pc = "done")
                  => runs'[r].filing = "skipped"
      /\ (dst' # dst \/ dstDirs' # dstDirs)
           => \E r \in RunIds : cpu = r /\ runs[r].filing = "invoked"
    ]_vars

\* C7 witness: a run found a video unconverted and ended with the filing
\* skipped, while a stable image waits in the source tree and the archive
\* is still empty.
C7_Witness ==
  \E r \in RunIds, e \in events, p \in SrcPaths :
    /\ cfg.convertVideos /\ cfg.ffmpeg
    /\ runs[r].pc = "done" /\ runs[r].filing = "skipped"
    /\ e.run = r /\ e.what = "unconverted"
    /\ ExistsSync(src, p) /\ ExtName(p.name) = "jpg"
    /\ src[p].age >= DefaultMaxAgeSeconds
    /\ dst = EmptyArchive /\ dstDirs = {}

\* C8: normalization idempotence.  When the conversion loop reaches an
\* input whose output .mp4 is present, that step changes no file, starts no
\* encoder, renames and deletes nothing, reports 'skipping - already
\* converted' for the input and goes on to the next file.
C8_SkipWhenOutputPresent ==
  [][ \A r \in RunIds :
        ( /\ runs[r].pc = "cv_loop" /\ runs[r].i <= Len(runs[r].files)
          /\ ExistsSync(src, Cur(r).srcFilePath)
          /\ ExistsSync(src, OutPath(Cur(r).srcFilePath)) )
        => /\ src' = src /\ dst' = dst
           /\ runs'[r] = [runs[r] EXCEPT !.i = @ + 1]
           /\ runs'[r].job = NoJob
           /\ events' = events \cup
                {Event(r, Cur(r).srcFilePath, "skipping - already converted")}
    ]_vars

\* C8 witness: a later run has skipped an input that an earlier run of the
\* same process converted, the complete output lying beside it.
C8_Witness ==
  \E e1 \in events, e2 \in events :
    /\ e1.what = "conversion complete" /\ e2.what = "skipping - already converted"
    /\ e1.path = e2.path /\ e1.launch = e2.launch /\ e1.run < e2.run
    /\ ExistsSync(src, e2.path)
    /\ ExistsSync(src, OutPath(e2.path))
    /\ src[OutPath(e2.path)].kind = "enc"
    /\ src[OutPath(e2.path)].origin = e2.path

\* the source tree holds the file at p and nothing else
OnlyFile(p) == \A q \in SrcPaths : ExistsSync(src, q) <=> q = p

\* C9: an .mp4 whose codec is not the target codec is re-encoded.  When
\* the conversion loop has handled a file with the extension .mp4 whose
\* video stream is not h264, the only file of the source tree, the encoder
\* has been invoked for it in that run.
C9_NonTargetMp4IsReencoded ==
  \A r \in RunIds :
    ( /\ runs[r].pc = "cv_loop" /\ runs[r].i > 1
      /\ OnlyFile(Handled(r))
      /\ ToLowerCase(ExtName(Handled(r).name)) = "mp4"
      /\ src[Handled(r)].kind = "orig"
      /\ src[Handled(r)].codec # TargetCodec )
    => Event(r, Handled(r), "converting") \in events

\* C10: the passthrough of an .mp4 that is h264 already.  The encoder is
\* never started for an .mp4 input for which the probe printed h264, and a
\* step that starts from such an input (an existing .mp4 holding h264,
\* its output absent, the probe working) moves it to the output path by a
\* rename, or reports that the rename failed, and starts no encoder.
C10_H264Mp4NeverEncoded ==
  [][ \A r \in RunIds :
        /\ (runs'[r].job # NoJob /\ runs'[r].job # runs[r].job)
             => ~( /\ ToLowerCase(ExtName(runs'[r].job.inputPath.name)) = "mp4"
                   /\ runs'[r].job.detectedCodec = TargetCodec )
        /\ ( /\ runs[r].pc = "cv_loop" /\ runs[r].i <= Len(runs[r].files)
              /\ ExistsSync(src, Cur(r).srcFilePath)
              /\ ~ExistsSync(src, OutPath(Cur(r).srcFilePath))
              /\ ToLowerCase(ExtName(Cur(r).srcFilePath.name)) = "mp4"
              /\ src[Cur(r).srcFilePath].codec = TargetCodec
              /\ runs'[r].job = NoJob /\ runs'[r] # runs[r] )
            => \/ /\ src' = [src EXCEPT ![OutPath(Cur(r).srcFilePath)] = src[Cur(r).srcFilePath],
                                         ![Cur(r).srcFilePath] = NoFile]
                   /\ Event(r, Cur(r).srcFilePath, "already h264 - moved") \in events'
               \/ /\ src' = src
                   /\ Event(r, Cur(r).srcFilePath, "failed to move") \in events'
    ]_vars

\* C10 witness: an .MP4 holding h264 was moved to its .mp4 name and no
\* encoder was started for it.
C10_Witness ==
  \E e \in events :
    /\ e.what = "already h264 - moved"
    /\ ~ExistsSync(src, e.path)
    /\ ExistsSync(src, OutPath(e.path))
    /\ src[OutPath(e.path)].kind = "orig" /\ src[OutPath(e.path)].origin = e.path
    /\ src[OutPath(e.path)].codec = TargetCodec
    /\ \A x \in events : ~(x.path = e.path /\ x.what = "converting")

C12_EveryFileProcessedWithoutStopOnError ==
  ( /\ main = "cli" /\ ~cfg.stopOnError /\ runs[1].pc = "done" )
  => \A k \in 1..Len(runs[1].files) :
       \E e \in events :
         e.path = runs[1].files[k].srcFilePath /\ e.what \in Processed

\* the absolute difference of two probed durations, in tenths of a second
DurationDiff(dup) ==
  IF dup.duration.val >= dup.mp4Duration.val
  THEN dup.duration.val - dup.mp4Duration.val
  ELSE dup.mp4Duration.val - dup.duration.val

\* C13: a member of a group is flagged as a deletion candidate only when its
\* probed duration differs from that of the MP4 by less than the tolerance of
\* one second; a difference of exactly one second keeps the file.
C13_FlaggedOnlyBelowTolerance ==
  main = "dedupe" =>
    \A k \in 1..Len(runs[1].duplicates) :
      DurationDiff(runs[1].duplicates[k]) < ToleranceTenths

\* the MP4 members (extension mp4 in any case) of the group of a path, among
\* the files the run has listed
Mp4Members(r, p) ==
  { k \in 1..Len(runs[r].files) :
      /\ GroupKey(runs[r].files[k].srcFilePath) = GroupKey(p)
      /\ ToLowerCase(ExtName(runs[r].files[k].srcFilePath.name)) = "mp4" }

\* C14: only a group with exactly one MP4 member yields deletion candidates:
\* every file flagged as a duplicate belongs to a group in which exactly one
\* of the listed files has the mp4 extension.
C14_CandidatesOnlyFromSingleMp4Groups ==
  main = "dedupe" =>
    \A k \in 1..Len(runs[1].duplicates) :
      Cardinality(Mp4Members(1, runs[1].duplicates[k].path)) = 1

\* C15: in dry-run mode the duplicate detector deletes nothing: no step of a
\* dry run changes the files on disk, whatever duplicates were detected.
C15_DryRunDeletesNothing ==
  [][(main = "dedupe" /\ cfg.dryRun) => src' = src]_vars

\* a dry run that has ended after detecting a duplicate that is still on disk
C15_Witness ==
  /\ main = "dedupe" /\ cfg.dryRun /\ runs[1].pc = "done"
  /\ Event(1, NoPath, "dry run: no files were deleted") \in events
  /\ \E k \in 1..Len(runs[1].duplicates) : ExistsSync(src, runs[1].duplicates[k].path)

\* C16: the filing plan is a function of the filing date and the name alone:
\* the destination folder is {year}/{year}-{month} below the archive root,
\* with the year of the filing date and its month (01..12) written with two
\* digits, and the destination path is that folder followed by the original
\* file name.
C16_FilingPlanFromYearAndMonth ==
  rout # NoResult =>
    LET d == rout.filingCreatedDate
    IN  /\ d.m \in 1..12
        /\ rout.dstPath = [year |-> d.y, month |-> <<d.m \div 10, d.m % 10>>]
        /\ rout.dstFilePath = [folder |-> rout.dstPath, name |-> ResolvedPath.name]

\* a plan was made for a filing date whose month needs the padding
C16_Witness ==
  rout # NoResult /\ rout.filingCreatedDate.m < 10 /\ rout.dstPath.month = <<0, 1>>

\* the metadata of the resolved file could not be read
Unreadable == rin.meta.kind \in {"throw", "error"}

\* the metadata was read and holds no date field
Dateless == rin.meta.kind = "data" /\ \A f \in ExifFields : rin.meta.exif[f] = NoDate

\* C17 as stated: for a file whose metadata cannot be read or holds no date
\* field, the resolver returns the birth time with the provenance
\* 'file.createdAt' and records a warning.
C17_FallbackRecordsWarning ==
  (rout # NoResult /\ (Unreadable \/ Dateless)) =>
    /\ rout.filingCreatedDate = rin.birthtime
    /\ rout.filingDateSrc = "file.createdAt"
    /\ rout.errorInfo = 1

\* C17 amended: in these cases the resolver returns the birth time with the
\* provenance 'file.createdAt'; it records a warning exactly when the
\* metadata could not be read, and none for readable metadata without a date.
C17_FallbackToBirthTime ==
  (rout # NoResult /\ (Unreadable \/ Dateless)) =>
    /\ rout.filingCreatedDate = rin.birthtime
    /\ rout.filingDateSrc = "file.createdAt"
    /\ (rout.errorInfo = 1) = Unreadable

\* the EXIF reader reported an error and the resolver answered with a warning
C17_Witness ==
  rout # NoResult /\ rin.meta.kind = "error" /\ rout.errorInfo = 1
    /\ rout.filingDateSrc = "file.createdAt"

\* C18: isFileStable answers true exactly when the age of the file (now minus
\* its last-modified time) is at least the threshold, 5 seconds when none is
\* given, and the call leaves the file tree as it was.
C18_StableExactlyAtThreshold ==
  [][rout' # rout =>
       /\ rout'.stable =
            (src[rin.path].age >= (IF rin.maxAgeSeconds.type = "undefined"
                                   THEN 5 ELSE rin.maxAgeSeconds.val))
       /\ src' = src]_vars

\* a file modified exactly five seconds ago was found stable with the default
C18_Witness ==
  /\ rout = [stable |-> TRUE]
  /\ rin.maxAgeSeconds = Undefined /\ src[rin.path].age = 5

\* C19: missing ffmpeg or ffprobe is fatal at startup: when the check of the
\* binaries fails the program aborts, so that after the failure has been
\* reported the process is over and no later run is started.
C19_MissingBinariesEndTheProgram ==
  (cfg.convertVideos /\ ~cfg.ffmpeg) =>
    \A r \in RunIds : r > 1 => runs[r].pc = "idle"

Rejectable(p) ==
  \/ p.name \in IGNORED_FILES
  \/ ToLowerCase(ExtName(p.name)) \notin ALLOWED_FILE_EXTENSIONS

\* C22: a file whose name is ignored or whose extension is not allowed is
\* never placed in the archive, stays at its source path, and is reported by
\* the filing pass with a skip reason of its own: when a filing pass has
\* ended, every such file under the source root has its skip reason reported
\* by that run.
C22_RejectedFilesAreReported ==
  /\ \A q \in DstPaths : ExistsSync(dst, q) => ~Rejectable([dir |-> "", name |-> q.name])
  /\ \A r \in RunIds :
       (runs[r].pc = "done" /\ runs[r].filing = "invoked") =>
         \A p \in SrcPaths :
           (ExistsSync(src, p) /\ Rejectable(p)) =>
             \E what \in {"file is in the ignored files list", "file extension is ignored"} :
               Event(r, p, what) \in events

\* C23: the order of a run and of the clean-up.  The clean-up of the empty
\* folders of the source tree runs in single-run mode only, and only after
\* the filing pass of the run: it never runs in continuous mode, and never
\* after a run whose filing pass was skipped by the gate.
C23_CleanupFollowsFilingPass ==
  \A e \in events :
    (e.what = "checking for empty folders" /\ e.launch = launch) =>
      /\ ~cfg.continuous
      /\ runs[1].pc = "done" /\ runs[1].filing = "invoked"

\* C24: the stability gate precedes the conversion.  The encoder is never
\* started for a file that isFileStable would report unstable at that time:
\* the input of every conversion job was last modified at least the
\* threshold ago when the job was started.
C24_NoJobForUnstableFile ==
  \A r \in RunIds :
    runs[r].job # NoJob =>
      runs[r].job.originalStats.mtimeAge >= DefaultMaxAgeSeconds

\* the probe of the duration of p failed in the run of the detector
ProbeFailed(p) == Event(1, p, "could not get duration") \in events

\* C25: a failed probe in the duplicate detector.  With stop-on-error the
\* run is over at once and deletes nothing, not even the duplicates found in
\* earlier groups.  Without it the member whose probe failed is neither a
\* deletion candidate nor reported as kept, no member of a group whose MP4
\* could not be probed is a candidate, and the loop goes on: when the
\* detection is over every group has been visited.
C25_ProbeFailureInDetector ==
  main = "dedupe" =>
    /\ (cfg.stopOnError /\ \E p \in SrcPaths : ProbeFailed(p)) =>
         /\ runs[1].pc = "done" /\ runs[1].d = 0
         /\ \A e \in events : e.what \notin {"deleted", "failed to delete"}
         /\ \A k \in 1..Len(runs[1].files) : ExistsSync(src, runs[1].files[k].srcFilePath)
    /\ \A k \in 1..Len(runs[1].duplicates) :
         /\ ~ProbeFailed(runs[1].duplicates[k].path)
         /\ ~ProbeFailed(runs[1].duplicates[k].mp4Path)
    /\ \A p \in SrcPaths :
         ProbeFailed(p) => Event(1, p, "KEPT") \notin events
    /\ ( /\ ~cfg.stopOnError /\ Len(runs[1].groups) > 0
         /\ runs[1].pc \in {"dd_delete", "done"} )
       => runs[1].g > Len(runs[1].groups)

\* C25 witness: without stop-on-error the probe failed in the first group and
\* the detector went on to find and delete the duplicate of the second.
C25_Witness ==
  /\ main = "dedupe" /\ ~cfg.stopOnError /\ runs[1].pc = "done"
  /\ Len(runs[1].groups) = 2
  /\ \E p \in SrcPaths : ProbeFailed(p) /\ GroupKey(p) = runs[1].groups[1].key
  /\ \E e \in events : e.what = "deleted" /\ GroupKey(e.path) = runs[1].groups[2].key

\* C26: a probe whose output is not a usable value gives the unknown signal
\* and the callers treat it as unknown.  In the duplicate detector a member
\* for which ffprobe prints no numeric duration is not compared with the MP4
\* as if it had a duration: it is never reported as kept.
C26_UnusableDurationIsUnknown ==
  main = "dedupe" =>
    \A p \in SrcPaths :
      (ExistsSync(src, p) /\ src[p].duration = TextOut) =>
        Event(1, p, "KEPT") \notin events

\* C27: when the destination folder of a file cannot be created, the failure
\* is logged and the file is skipped: nothing else is reported for that file
\* by the run (no result of a check, no failure of a copy, timestamp set or
\* unlink, no move), and the run is not working on it any more.
C27_FileSkippedWhenMkdirFails ==
  \A e \in events :
    (e.what = "error creating folder" /\ e.launch = launch) =>
      /\ \A f \in events :
           (f.launch = e.launch /\ f.run = e.run /\ f.path = e.path) => f = e
      /\ ~( /\ runs[e.run].pc \in {"mv_check", "mv_copy", "mv_utimes", "mv_unlink"}
            /\ Cur(e.run).srcFilePath = e.path )

\* the runs of this process whose encoder subprocess is running
Encoding ==
  { r \in RunIds : proc = "up" /\ runs[r].pc = "cv_encoding" /\ runs[r].job.encoder = "running" }

\* C28: files are processed strictly one after the other.  In the
\* Normalization Engine at most one encoder subprocess is running at any
\* time, and no run is handling a file in its synchronous code while an
\* encoder started for another file is still running.
C28_OneEncoderAtATime ==
  /\ Cardinality(Encoding) <= 1
  /\ \A r \in Encoding : cpu = 0 \/ runs[cpu].pc \notin {"cv_loop", "cv_utimes", "cv_delete", "cv_catch"}

\* the first non-empty date of the metadata in the order of the claim:
\* exif.CreateDate, exif.DateTimeOriginal, exif.DateTimeDigitized,
\* image.ModifyDate, image.CreateDate
ClaimedMetadataDate(x) ==
  Or(x.eCreateDate, Or(x.eDateTimeOriginal,
     Or(x.eDateTimeDigitized, Or(x.iModifyDate, x.iCreateDate))))

\* C29: the precedence of the metadata dates.  For readable metadata holding
\* a date, the filing date the resolver returns is the first non-empty field
\* in the order capture time, original time, digitized time, image modify
\* time, image create time; with the exif fields empty and both image dates
\* present it is image.ModifyDate.
C29_MetadataDatePrecedence ==
  ( /\ rout # NoResult /\ rin.meta.kind = "data"
    /\ ClaimedMetadataDate(rin.meta.exif) # NoDate )
  => /\ rout.filingDateSrc = "exif"
     /\ rout.filingCreatedDate = ClaimedMetadataDate(rin.meta.exif)

\* C30: the output path of a conversion.  For every conversion job the
\* output has the extension mp4 exactly, the name of the input without its
\* extension as its base name, and lies in the directory of the input, which
\* is a directory under the root that was scanned.
C30_OutputBesideInput ==
  \A r \in RunIds :
    runs[r].job # NoJob =>
      LET inName == runs[r].job.inputPath.name
          outName == runs[r].job.outputPath.name
      IN  /\ Len(outName) = Len(inName)
          /\ outName[Len(outName)] = "mp4"
          /\ SubSeq(outName, 1, Len(outName) - 1) = SubSeq(inName, 1, Len(inName) - 1)
          /\ runs[r].job.outputPath.dir = runs[r].job.inputPath.dir
          /\ runs[r].job.outputPath.dir \in Dirs

\* C30 witness: the encoder has written the complete output of a file of the
\* subfolder whose extension is in upper case, beside that file.
C30_Witness ==
  \E r \in RunIds :
    /\ runs[r].job # NoJob /\ runs[r].job.encoder = "exit0"
    /\ runs[r].job.inputPath = [dir |-> "sub", name |-> <<"a", "MP4">>]
    /\ ExistsSync(src, [dir |-> "sub", name |-> <<"a", "mp4">>])
    /\ src[[dir |-> "sub", name |-> <<"a", "mp4">>]].kind = "enc"

\* C31: the provenance agrees with the date.  When the resolver reports the
\* source 'exif', the filing date it returns is a date of the embedded
\* metadata; when it reports 'file.createdAt', the filing date is the birth
\* time of the file.
C31_ProvenanceMatchesDate ==
  rout # NoResult =>
    /\ rout.filingDateSrc \in {"exif", "file.createdAt"}
    /\ rout.filingDateSrc = "exif" =>
         /\ rin.meta.kind = "data"
         /\ \E f \in ExifFields :
              rin.meta.exif[f] # NoDate /\ rin.meta.exif[f] = rout.filingCreatedDate
    /\ rout.filingDateSrc = "file.createdAt" =>
         rout.filingCreatedDate = rin.birthtime

\* C32: the resolver never blocks discovery.  For every outcome of the
\* metadata reader (an exception of the constructor, a callback with an
\* error, a callback with data, with or without its exif and image sections)
\* the promise of getExtendedFile is resolved, exactly once.
C32_PromiseAlwaysResolved ==
  rout # NoResult => rout.resolves = 1

\* C33: distinct inputs never share a conversion outcome.  When the loop
\* skips a video that is not an MP4 as 'already converted', the .mp4 beside
\* it was not produced from another video that is not an MP4 (a.mov and
\* a.avi do not share a.mp4).
C33_NoSharedOutput ==
  \A e \in events :
    ( /\ e.what = "skipping - already converted"
      /\ ToLowerCase(ExtName(e.path.name)) # "mp4"
      /\ ExistsSync(src, OutPath(e.path)) )
    => LET origin == src[OutPath(e.path)].origin
       IN  origin = e.path \/ ToLowerCase(ExtName(origin.name)) = "mp4"

\* C34: a failed move leaves no archive entry.  When the attempt of a run to
\* move a file, which passed the test that the destination does not exist,
\* ends in an error of the copy or of the restoring of the timestamps, the
\* destination path does not exist after the step.
C34_FailedMoveLeavesNoEntry ==
  [][ \A r \in RunIds :
        ( /\ runs[r].pc \in {"mv_copy", "mv_utimes"}
          /\ runs'[r].pc = "mv_mkdir"
          /\ runs'[r].i = runs[r].i + 1 )
        => dst'[Cur(r).dstFilePath] = NoFile ]_vars

\* C35: the filing pass never moves an unstable file.  Whenever a run copies
\* a file to the archive or unlinks it from the source after the copy, the
\* file is one that isFileStable reports stable at that moment, whatever its
\* type and whatever the configuration.
C35_NoMoveOfUnstableFile ==
  [][ \A r \in RunIds :
        ( \/ runs[r].pc = "mv_copy" /\ runs'[r].pc = "mv_utimes"
          \/ /\ runs[r].pc = "mv_unlink"
             /\ ExistsSync(src, Cur(r).srcFilePath)
             /\ ~ExistsSync(src', Cur(r).srcFilePath) )
        => isFileStable(src, Cur(r).srcFilePath, DefaultMaxAgeSeconds) ]_vars

\* C36: the duplicate detector never deletes an MP4 and never the last
\* copy.  Every file that disappears from the folder has an extension other
\* than .mp4, was flagged in this run as within the tolerance of the MP4 of
\* its directory and base name, and that MP4 exists after the deletion; the
\* deletion happens only when the detection has gone through all groups.
C36_DeletesOnlyFlaggedNonMp4 ==
  [][ \A p \in SrcPaths :
        (ExistsSync(src, p) /\ ~ExistsSync(src', p)) =>
          /\ ToLowerCase(ExtName(p.name)) # "mp4"
          /\ Event(1, p, "DUPLICATE") \in events
          /\ runs[1].pc = "dd_delete"
          /\ runs[1].g > Len(runs[1].groups)
          /\ \E d \in 1..Len(runs[1].duplicates) :
               LET dup == runs[1].duplicates[d]
               IN  /\ dup.path = p
                   /\ ToLowerCase(ExtName(dup.mp4Path.name)) = "mp4"
                   /\ GroupKey(dup.mp4Path) = GroupKey(p)
                   /\ AbsDiffAtMost(dup.mp4Duration, dup.duration, ToleranceTenths)
                   /\ ExistsSync(src', dup.mp4Path) ]_vars

C36_Witness ==
  \E p \in SrcPaths :
    /\ Event(1, p, "deleted") \in events
    /\ ~ExistsSync(src, p)
    /\ \E q \in SrcPaths :
         /\ ToLowerCase(ExtName(q.name)) = "mp4"
         /\ GroupKey(q) = GroupKey(p)
         /\ ExistsSync(src, q)

\* p is a file the source folder held from the start and a run has
\* discovered as an input of the conversion
DiscoveredInput(p) ==
  /\ ExistsSync(src, p)
  /\ src[p].kind = "orig"
  /\ \E r \in RunIds : \E k \in 1..Len(runs[r].files) : runs[r].files[k].srcFilePath = p

\* the step is one of the conversion engine or of an encoder subprocess: it
\* is not the unlink of the filing pass
EngineStep == ~\E r \in RunIds : cpu = r /\ runs[r].pc = "mv_unlink"

\* the file at p is the same but for the time since its last modification
SameFile(f, g) == g # NoFile /\ [g EXCEPT !.age = f.age] = f

\* C37: the engine never works on a file in place.  A discovered input whose
\* extension is .mp4 in any case is not overwritten and not removed by a step
\* of the conversion engine or of an encoder.
C37_Mp4InputNeverRemoved ==
  [][ \A p \in SrcPaths :
        ( /\ DiscoveredInput(p)
          /\ ToLowerCase(ExtName(p.name)) = "mp4"
          /\ EngineStep )
        => SameFile(src[p], src'[p]) ]_vars

\* C37: the engine never works on a file in place.  A job is started, and a
\* rename is made, only with an output path that differs from the input path
\* and does not exist; the clean-up after a failure unlinks nothing but the
\* output path of its job; and a discovered input that has the name of its
\* own output is not overwritten and not removed by a step of the engine or
\* of an encoder.
C37_NoDestructiveInPlace ==
  [][ \A r \in RunIds :
        /\ (runs[r].job = NoJob /\ runs'[r].job # NoJob) =>
             /\ runs'[r].job.outputPath # runs'[r].job.inputPath
             /\ ~ExistsSync(src, runs'[r].job.outputPath)
        /\ (cpu = r /\ runs[r].pc = "cv_loop") =>
             \A p \in SrcPaths :
               (ExistsSync(src, p) /\ ~ExistsSync(src', p)) =>
                 /\ p = Cur(r).srcFilePath
                 /\ OutPath(p) # p
                 /\ ~ExistsSync(src, OutPath(p))
                 /\ src'[OutPath(p)] = src[p]
        /\ (cpu = r /\ runs[r].pc = "cv_catch") =>
             \A p \in SrcPaths :
               (ExistsSync(src, p) /\ ~ExistsSync(src', p)) =>
                 (p = runs[r].job.outputPath /\ p # runs[r].job.inputPath)
        /\ EngineStep =>
             \A p \in SrcPaths :
               (DiscoveredInput(p) /\ OutPath(p) = p) => SameFile(src[p], src'[p]) ]_vars

C37_Witness ==
  \E p \in SrcPaths :
    /\ DiscoveredInput(p) /\ OutPath(p) = p
    /\ \E r \in RunIds :
         /\ Event(r, p, "skipping - already converted") \in events
         /\ Event(r, p, "removed failed conversion file") \notin events
    /\ \E e \in events : e.what = "removed failed conversion file"

\* d lies strictly below e
Below(d, e) == Len(d) > Len(e) /\ SubSeq(d, 1, Len(e)) = e

\* C38: cleanEmptyFoldersRecursively(root) removes only folders that are
\* empty when they are removed, never the root and never a file: every file
\* present before is present after at its path.  When it returns, no empty
\* folder is left strictly below the root.
C38_OnlyEmptyFoldersRemoved ==
  rout # NoResult =>
    /\ Root \in rout.dirs
    /\ rout.files = rin.files
    /\ rout.dirs \subseteq rin.dirs
    /\ \A k \in 1..Len(rout.removed) :
         /\ rout.removed[k].entries = <<>>
         /\ rout.removed[k].folder \in rin.dirs \ {Root}
         /\ rout.removed[k].folder \notin rout.dirs
    /\ rin.dirs \ rout.dirs = { rout.removed[k].folder : k \in 1..Len(rout.removed) }
    /\ ~rout.threw => \A d \in rout.dirs \ {Root} : Readdir(rout, d) # <<>>

C38_Witness ==
  /\ rout # NoResult /\ ~rout.threw
  /\ rin.files # {} /\ rout.files = rin.files
  /\ \E j, k \in 1..Len(rout.removed) :
       /\ j < k
       /\ Below(rout.removed[j].folder, rout.removed[k].folder)
  /\ \E d \in rout.dirs : d # Root

====
